---- MODULE Spec2Model ----
(***************************************************************************)
(* State-machine model of the akd-watch auditor: the per-namespace audit   *)
(* loop (crates/auditor/src/namespace_auditor.rs), configuration           *)
(* reconciliation (crates/auditor/src/config.rs, auditor_app.rs), the      *)
(* signing-key repositories and the namespace / signature stores           *)
(* (crates/common/src/storage).                                            *)
(***************************************************************************)
EXTENDS Integers, Sequences, FiniteSets, TLC

(* ------------------------------ bounds --------------------------------- *)
\* highest epoch the AKD directories publish
MaxEpoch == 2
\* number of times the process is started (AuditorApp::from_config + run)
MaxStarts == 2
\* hostile acts in one behaviour: out-of-band modifications of a signature
\* directory plus published blobs that depart from the honest chain
MaxHostile == 1
\* number of times the wall clock passes the current key's not_after_date
MaxExpiries == 1
\* number of keys the signing-key repository retires (forced rotations included)
MaxRetired == 3
\* number of verifying keys keys_verifying.json comes to hold for a reader
MaxReaderKeys == 3

(* --------------------------- program constants ------------------------- *)
MAX_EPOCHS_PER_POLL == 50

(* ------------------------------ universe ------------------------------- *)
Names == {"a", "b"}
\* the starting_epoch each namespace is configured with
ConfigStartingEpoch == [n \in Names |-> IF n = "a" THEN 0 ELSE 2]
Epochs == 0..MaxEpoch
\* 32-byte digests, abstracted to a small set
Digests == {0, 1}
\* Option::None for an Option<Epoch>
None == -1

ActiveStatuses == {"Online", "Initialization"}
StickyStatuses == {"SignatureLost", "SignatureVerificationFailed"}
ConfigStatuses == {"Online", "Disabled"}

\* absent entry of the namespace map
NoInfo == [starting_epoch |-> None, last_verified_epoch |-> None, status |-> "Absent"]
\* absent entry of a signature store
NoSig == [ciphersuite |-> [variant |-> "", value |-> 0], namespace |-> "",
          timestamp |-> None, epoch |-> None, digest |-> None, key_id |-> 0,
          signed_by |-> 0, signed_msg |-> <<>>]
\* absent entry of an AKD directory
NoBlob == [epoch |-> None, previous_hash |-> None, current_hash |-> None,
           proof_start |-> None, proof_end |-> None]
NoKey == [key_id |-> 0, secret |-> 0]
NoKeyState == [current_signing_key |-> NoKey, expired_keys |-> <<>>]
NoEvent == [epoch |-> None, outcome |-> "none", anchor |-> None, anchor_source |-> "none"]
\* Option::None for an Option<VerifyingKey>
NoVerifyingKey == [key_id |-> 0, public |-> 0]
\* no get_verifying_key call yet
NoLookup == [key_id |-> None, result |-> NoVerifyingKey, missed |-> FALSE]
\* no state file on disk
NoStateFile == [kind |-> "absent", doc |-> [n \in Names |-> NoInfo]]
\* no call yet
NoRepoCall == [op |-> "none", name |-> "", result |-> "none"]
NoReconcile == [existing_status |-> "none", config_status |-> "none", status |-> "none",
                changed |-> FALSE, op |-> "none", config_starting_epoch |-> None]

VARIABLES
    storage_kind,    \* "File" or "InMemory": which realisation backs the three stores
    configured,      \* the names of config.namespaces
    phase,           \* "down" or "running": whether the auditor process is alive
    starts,          \* number of process starts so far
    namespaces,      \* NamespaceRepository: name -> NamespaceInfo
    signatures,      \* SignatureRepository per namespace: epoch -> EpochSignature
    key_state,       \* KeyState behind the signing-key repository's mutex
    keys_mutex,      \* "free"; "deadlocked" or "poisoned" once its holder re-locked it
    keys_file,       \* keys.json
    verifying_file,  \* keys_verifying.json
    next_key_id,     \* source of fresh Uuid / key pairs
    lapsed,          \* key ids whose not_after_date is in the past
    akd,             \* the remote AKD directories: name -> epoch -> published blob
    pc,              \* position of each namespace worker
    namespace_info,  \* the NamespaceInfo a worker read at the start of its cycle
    blob_names,      \* the blob names the current cycle polled
    idx,             \* number of blob names of the cycle already handled
    sleep_duration,  \* the duration of the interruptible sleep a worker is in
    shutdown_rx,     \* a shutdown message is waiting in the worker's receiver
    tampers,         \* out-of-band modifications made to a namespace's signature store
    last_event,      \* what the worker's latest process_audit_request did
    reconciled,      \* what the latest populate_namespace_repository did per namespace
    verifying_keys,  \* the in-memory map of a long-lived FileVerifyingKeyRepository
    lookup,          \* the latest get_verifying_key call on it and what it returned
    state_file,      \* the state file of the file-backed NamespaceRepository
    repo_call        \* the latest mutating call made on a NamespaceRepository by hand

vars == <<storage_kind, configured, phase, starts, namespaces, signatures, key_state, keys_mutex,
          keys_file, verifying_file, next_key_id, lapsed, akd, pc, namespace_info,
          blob_names, idx, sleep_duration, shutdown_rx, tampers, last_event, reconciled, verifying_keys,
          lookup, state_file, repo_call>>

\* The hostile environment (out-of-band changes of the signature files, a
\* dishonest directory, a killed process) is explored for a configuration with one
\* namespace; a configuration with several namespaces runs against an honest one.
Hostile == Cardinality(configured) = 1

keyVars == <<key_state, keys_mutex, keys_file, verifying_file, next_key_id, lapsed>>
workerVars == <<pc, namespace_info, blob_names, idx, sleep_duration, last_event>>
readerVars == <<verifying_keys, lookup>>
repoVars == <<state_file, repo_call>>

\* run_audit_cycle has returned for worker n: the locals of the cycle (the
\* NamespaceInfo it read, the polled blob names, the loop position) are dropped
CycleLocalsDropped(n) ==
    /\ namespace_info' = [namespace_info EXCEPT ![n] = NoInfo]
    /\ blob_names' = [blob_names EXCEPT ![n] = <<>>]
    /\ idx' = [idx EXCEPT ![n] = 0]

\* the process is gone: so is everything its workers held in memory
WorkersGone ==
    /\ pc' = [n \in Names |-> "down"]
    /\ namespace_info' = [n \in Names |-> NoInfo]
    /\ blob_names' = [n \in Names |-> <<>>]
    /\ idx' = [n \in Names |-> 0]
    /\ sleep_duration' = [n \in Names |-> "none"]
    /\ shutdown_rx' = [n \in Names |-> FALSE]
    /\ last_event' = [n \in Names |-> NoEvent]

(* ------------------------- crypto.rs / keys ---------------------------- *)
\* variant: every generated key carries the same Uuid
GenerateSameUuid(id) == [key_id |-> 1, secret |-> id]

\* SigningKey::generate: a fresh key pair with a fresh Uuid
Generate(id) == [key_id |-> id, secret |-> id]

\* SigningKey::verifying_key: the public half, same key_id
VerifyingKeyOf(k) == [key_id |-> k.key_id, public |-> k.secret]

\* SigningKey::is_expired: Utc::now() > not_after_date
IsExpired(k) == k.key_id \in lapsed

\* KeyState::to_verifying_keys: expired keys first, then the current key
ToVerifyingKeys(ks) ==
    { VerifyingKeyOf(ks.expired_keys[i]) : i \in 1..Len(ks.expired_keys) }
        \cup { VerifyingKeyOf(ks.current_signing_key) }

\* verifying_key_repository(): the file-backed view reads keys_verifying.json,
\* the in-memory view is built from the current and the expired keys
VerifyingKeyRepository ==
    IF storage_kind = "File" THEN verifying_file ELSE ToVerifyingKeys(key_state)

(* --------------------------- epoch_signature.rs ------------------------ *)
\* versions.rs, enum Ciphersuite: the two named variants and Unknown(u32)
ProtobufEd25519 == [variant |-> "ProtobufEd25519", value |-> 0]
BincodeEd25519 == [variant |-> "BincodeEd25519", value |-> 0]
Unknown(v) == [variant |-> "Unknown", value |-> v]

\* impl Default for Ciphersuite
CiphersuiteDefault == ProtobufEd25519

\* impl From<Ciphersuite> for u32, which Encode for Ciphersuite writes
CiphersuiteToU32(c) ==
    IF c.variant = "ProtobufEd25519" THEN 1
    ELSE IF c.variant = "BincodeEd25519" THEN 2
    ELSE c.value

\* variant: every decoded ciphersuite is the default one
CiphersuiteFromU32Default(v) == ProtobufEd25519

\* impl From<u32> for Ciphersuite, which Decode for Ciphersuite applies
CiphersuiteFromU32(v) ==
    IF v = 1 THEN ProtobufEd25519
    ELSE IF v = 2 THEN BincodeEd25519
    ELSE Unknown(v)

\* bincode::encode_to_vec of an EpochSignature: the fields in order, the
\* ciphersuite as its u32
EncodeSignature(sig) == [sig EXCEPT !.ciphersuite = CiphersuiteToU32(sig.ciphersuite)]

\* bincode::decode_from_slice of the bytes of a signature file
DecodeSignature(bytes) == [bytes EXCEPT !.ciphersuite = CiphersuiteFromU32(bytes.ciphersuite)]

\* EpochSignatureV1::to_message: the signed payload rebuilt from the stored fields
ToMessage(sig) == <<sig.ciphersuite, sig.namespace, sig.timestamp, sig.epoch, sig.digest>>

\* chrono::Utc::now().timestamp() in EpochSignature::sign: the wall clock is past
\* the timestamp of every signature the namespace's store holds
UtcNow(store) ==
    LET stamps == { store[e].timestamp : e \in DOMAIN store } \cup {0}
    IN  1 + CHOOSE t \in stamps : \A u \in stamps : u <= t

\* variant: the signature carries a fixed digest instead of the one it is given
SignFixedDigest(name, epoch, digest, key, timestamp) ==
    [ciphersuite |-> CiphersuiteDefault, namespace |-> name, timestamp |-> timestamp,
     epoch |-> epoch, digest |-> 0, key_id |-> key.key_id, signed_by |-> key.secret,
     signed_msg |-> <<CiphersuiteDefault, name, timestamp, epoch, 0>>]

\* EpochSignature::sign
Sign(name, epoch, digest, key, timestamp) ==
    [ciphersuite |-> CiphersuiteDefault, namespace |-> name, timestamp |-> timestamp,
     epoch |-> epoch, digest |-> digest, key_id |-> key.key_id, signed_by |-> key.secret,
     signed_msg |-> <<CiphersuiteDefault, name, timestamp, epoch, digest>>]

\* EpochSignature::verify: "ok", or the VerifyError it fails with
Verify(sig, repo) ==
    IF ~(\E vk \in repo : vk.key_id = sig.key_id) THEN "VerifyingKeyNotFound"
    ELSE LET vk == CHOOSE v \in repo : v.key_id = sig.key_id
         IN IF sig.signed_by = vk.public /\ sig.signed_msg = ToMessage(sig)
            THEN "ok" ELSE "SignatureVerificationFailed"

(* ------------------------------ namespace_info.rs ---------------------- *)
\* variant: only a Disabled namespace counts as inactive
is_active_unless_disabled(status) == status # "Disabled"

\* variant: a namespace whose verification failed counts as active
is_active_or_failed(status) ==
    status \in {"Online", "Initialization", "SignatureVerificationFailed"}

\* NamespaceStatus::is_active
is_active(status) ==status \in {"Online", "Initialization"}

\* variant: records the next epoch to audit in place of the audited one
update_last_verified_epoch_next(info, epoch) ==
    [info EXCEPT !.last_verified_epoch = epoch + 1]

\* NamespaceInfo::update_last_verified_epoch
update_last_verified_epoch(info, epoch) == [info EXCEPT !.last_verified_epoch = epoch]

\* NamespaceInfo::update_status
update_status(info, status) == [info EXCEPT !.status = status]

(* ------------------------------ Init ----------------------------------- *)
Init ==
    /\ storage_kind \in {"File", "InMemory"}
    /\ configured \in {{"a"}, Names}
    /\ phase = "down"
    /\ starts = 0
    /\ namespaces = [n \in Names |-> NoInfo]
    /\ signatures = [n \in Names |-> [e \in Epochs |-> NoSig]]
    /\ key_state = NoKeyState
    /\ keys_mutex = "free"
    /\ keys_file = NoKeyState
    /\ verifying_file = {}
    /\ next_key_id = 1
    /\ lapsed = {}
    /\ akd = [n \in Names |-> [e \in Epochs |-> NoBlob]]
    /\ pc = [n \in Names |-> "down"]
    /\ namespace_info = [n \in Names |-> NoInfo]
    /\ blob_names = [n \in Names |-> <<>>]
    /\ idx = [n \in Names |-> 0]
    /\ sleep_duration = [n \in Names |-> "none"]
    /\ shutdown_rx = [n \in Names |-> FALSE]
    /\ tampers = [n \in Names |-> 0]
    /\ last_event = [n \in Names |-> NoEvent]
    /\ reconciled = [n \in Names |-> NoReconcile]
    /\ verifying_keys = {}
    /\ lookup = NoLookup
    /\ state_file = NoStateFile
    /\ repo_call = NoRepoCall

(* ---------------- storage/namespaces: NamespaceRepository -------------- *)
\* add_namespace of both repositories: HashMap::insert under the name of info
add_namespace(repo, name, info) ==
    [repo |-> [repo EXCEPT ![name] = info], result |-> "Ok"]

\* variant: update_namespace inserts under a name the map does not hold
update_namespace_upsert(repo, name, info) ==
    [repo |-> [repo EXCEPT ![name] = info], result |-> "Ok"]

\* update_namespace of both repositories
update_namespace(repo, name, info) ==
    IF repo[name] # NoInfo
    THEN [repo |-> [repo EXCEPT ![name] = info], result |-> "Ok"]
    ELSE [repo |-> repo, result |-> "NamespaceNotFound"]

\* remove_namespace of both repositories
remove_namespace(repo, name) ==
    IF repo[name] # NoInfo
    THEN [repo |-> [repo EXCEPT ![name] = NoInfo], result |-> "Ok"]
    ELSE [repo |-> repo, result |-> "NamespaceNotFound"]

\* FileNamespaceRepository::persist: std::fs::write of the serialized map
persist(locked_namespaces) == [kind |-> "complete", doc |-> locked_namespaces]

\* the state file after a call: the file-backed repository persists the map in
\* every mutating call that passed its check
Persisted(file, repo, mutated) ==
    IF storage_kind = "File" /\ mutated THEN persist(repo) ELSE file

\* the state file of a process killed inside std::fs::write: the file as it was
\* (not yet opened), truncated or written in part, or written in full
WriteOutcomes(file, repo) ==
    {file, [kind |-> "torn", doc |-> [n \in Names |-> NoInfo]], persist(repo)}

\* FileNamespaceRepository::new and InMemoryNamespaceRepository::new: the map
\* the repository starts with; a state file that does not parse makes
\* FileNamespaceRepository::new panic
NamespaceRepositoryNew(file) ==
    IF storage_kind = "File" /\ file.kind = "complete" THEN file.doc
    ELSE [n \in Names |-> NoInfo]

(* ------------------- config.rs: status reconciliation ------------------ *)
\* variant: the configuration wins over every stored status
resolve_status_transition_no_sticky(config_status, existing_status) ==
    LET desired_status == IF config_status = "Online" THEN "Online" ELSE "Disabled"
    IN  IF existing_status = "Absent"
        THEN [status |-> desired_status, changed |-> FALSE]
        ELSE [status |-> desired_status, changed |-> existing_status # desired_status]

\* variant: every existing namespace without a failure status counts as changed
resolve_status_transition_always_changed(config_status, existing_status) ==
    LET desired_status == IF config_status = "Online" THEN "Online" ELSE "Disabled"
    IN  IF existing_status = "Absent"
        THEN [status |-> desired_status, changed |-> FALSE]
        ELSE IF existing_status \in {"SignatureLost", "SignatureVerificationFailed"}
        THEN [status |-> existing_status, changed |-> FALSE]
        ELSE [status |-> desired_status, changed |-> TRUE]

\* NamespaceConfig::resolve_status_transition; existing_status "Absent" is None
resolve_status_transition(config_status, existing_status) ==
    LET desired_status == IF config_status = "Online" THEN "Online" ELSE "Disabled"
    IN  IF existing_status = "Absent"
        THEN [status |-> desired_status, changed |-> FALSE]
        ELSE IF existing_status \in {"SignatureLost", "SignatureVerificationFailed"}
        THEN [status |-> existing_status, changed |-> FALSE]
        ELSE [status |-> desired_status, changed |-> existing_status # desired_status]

\* the epoch fields of a reconciled NamespaceInfo: a new namespace starts at the
\* configured starting_epoch with no last_verified_epoch, an existing one keeps its
\* last_verified_epoch
ReconciledEpochs(config_starting_epoch, existing) ==
    [starting_epoch |-> config_starting_epoch,
     last_verified_epoch |-> IF existing = NoInfo THEN None
                             ELSE existing.last_verified_epoch]

\* NamespaceConfig::to_namespace_info
to_namespace_info(config_status, config_starting_epoch, existing) ==
    LET st == resolve_status_transition(config_status, existing.status)
        ep == ReconciledEpochs(config_starting_epoch, existing)
    IN  [info |-> [starting_epoch |-> ep.starting_epoch,
                   last_verified_epoch |-> ep.last_verified_epoch,
                   status |-> st.status],
         changed |-> st.changed]

\* the branch AuditorApp::populate_namespace_repository takes for one namespace
PopulateOp(existing, changed) ==
    IF existing = NoInfo THEN "add" ELSE IF changed THEN "update" ELSE "none"

\* AuditorApp::populate_namespace_repository over the whole configuration
populate_namespace_repository(repo, config) ==
    [n \in Names |->
        IF n \notin DOMAIN config THEN repo[n]
        ELSE LET r == to_namespace_info(config[n].status, config[n].starting_epoch, repo[n])
             IN  IF PopulateOp(repo[n], r.changed) = "add"
                 THEN add_namespace(repo, n, r.info).repo[n]
                 ELSE IF PopulateOp(repo[n], r.changed) = "update"
                 THEN update_namespace(repo, n, r.info).repo[n]
                 ELSE repo[n]]

\* what populate_namespace_repository decided for each namespace
ReconcileRecord(repo, config) ==
    [n \in Names |->
        IF n \notin DOMAIN config THEN NoReconcile
        ELSE
        LET r == to_namespace_info(config[n].status, config[n].starting_epoch, repo[n])
        IN  [existing_status |-> repo[n].status, config_status |-> config[n].status,
             status |-> r.info.status, changed |-> r.changed,
             op |-> PopulateOp(repo[n], r.changed),
             config_starting_epoch |-> config[n].starting_epoch]]

\* AuditorConfig.namespaces: one NamespaceConfig (status, starting_epoch) per
\* configured name; the configuration file keeps each namespace's starting_epoch
\* from one start to the next, the operator switches namespaces on and off
NamespaceConfigs ==
    { config \in [configured -> [status : ConfigStatuses, starting_epoch : Epochs]] :
        \A n \in configured : config[n].starting_epoch = ConfigStartingEpoch[n] }

(* -------------------- signing-key repositories ------------------------- *)
\* variant: a key is generated whether or not keys.json exists
FileInitialKeyStateFresh ==
    [current_signing_key |-> Generate(next_key_id), expired_keys |-> <<>>]

\* FileSigningKeyRepository::new: load keys.json if it exists, else generate
FileInitialKeyState ==
    IF keys_file # NoKeyState THEN keys_file
    ELSE [current_signing_key |-> Generate(next_key_id), expired_keys |-> <<>>]

\* variant: the replaced key is dropped instead of being kept as expired
RotatedDroppingOld(ks, id) ==
    [current_signing_key |-> Generate(id), expired_keys |-> ks.expired_keys]

\* the replace-and-push both repositories rotate with
Rotated(ks, id) ==
    [current_signing_key |-> Generate(id),
     expired_keys |-> Append(ks.expired_keys, ks.current_signing_key)]

\* variant: the current key is handed out whether or not it is expired
get_current_signing_key_no_rotation(ks, id) == ks

\* InMemorySigningKeyRepository::get_current_signing_key, the state it leaves
\* behind; the key it returns is that state's current_signing_key
get_current_signing_key(ks, id) ==
    IF IsExpired(ks.current_signing_key) THEN Rotated(ks, id) ELSE ks

\* variant: persist() finds the keys mutex released and its writes are lost
RelockOutcomesReleased == {"free"}

\* FileSigningKeyRepository::rotate_signing_key calls persist() while it holds
\* the guard of the keys mutex, and persist() locks that mutex again: locking a
\* std::sync::Mutex the thread already holds either never returns or panics
\* (which poisons the mutex once the guard unwinds)
RelockOutcomes == {"deadlocked", "poisoned"}

(* ------------------------ AuditorApp::from_config + run ---------------- *)
\* The process starts: the stores are opened (file-backed ones reload what was
\* persisted), the configuration is reconciled into the namespace repository and
\* one worker is spawned per namespace.  In-memory stores live as long as the
\* process: starting such a deployment again is starting from Init.
AppStart(config) ==
    /\ phase = "down"
    /\ starts < MaxStarts
    /\ storage_kind = "File" \/ starts = 0
    /\ state_file.kind # "torn"
    /\ phase' = "running"
    /\ starts' = starts + 1
    /\ LET repo == NamespaceRepositoryNew(state_file)
       IN  /\ namespaces' = populate_namespace_repository(repo, config)
           /\ reconciled' = ReconcileRecord(repo, config)
           /\ state_file' = Persisted(state_file, populate_namespace_repository(repo, config),
                                \E n \in DOMAIN config :
                                    ReconcileRecord(repo, config)[n].op # "none")
    /\ UNCHANGED signatures
    /\ IF storage_kind = "File"
       THEN /\ key_state' = FileInitialKeyState
            /\ keys_file' = FileInitialKeyState
            /\ verifying_file' = ToVerifyingKeys(FileInitialKeyState)
            /\ next_key_id' = IF keys_file # NoKeyState THEN next_key_id
                              ELSE next_key_id + 1
       ELSE /\ key_state' = [current_signing_key |-> Generate(next_key_id),
                             expired_keys |-> <<>>]
            /\ next_key_id' = next_key_id + 1
            /\ UNCHANGED <<keys_file, verifying_file>>
    /\ keys_mutex' = "free"
    /\ pc' = [n \in Names |-> IF n \in DOMAIN config THEN "ready" ELSE "down"]
    /\ namespace_info' = [n \in Names |-> NoInfo]
    /\ blob_names' = [n \in Names |-> <<>>]
    /\ idx' = [n \in Names |-> 0]
    /\ sleep_duration' = [n \in Names |-> "none"]
    /\ shutdown_rx' = [n \in Names |-> FALSE]
    /\ last_event' = [n \in Names |-> NoEvent]
    /\ UNCHANGED <<readerVars, repo_call, storage_kind, configured, lapsed, akd, tampers>>

(* ------------------------- the remote AKD directory -------------------- *)
\* the root hash the directory announces for an epoch
CurrentHash(e) == e % 2

\* the root hash of the epoch before e on the honest chain
HonestPrevious(e) == CurrentHash(e + 1)

\* a published blob whose name or proof does not continue the honest chain
Dishonest(blob) ==
    /\ blob # NoBlob
    /\ \/ blob.previous_hash # HonestPrevious(blob.epoch)
       \/ blob.proof_start # HonestPrevious(blob.epoch)

\* number of hostile acts so far
HostileActs ==
    Cardinality({x \in Names \X Epochs : Dishonest(akd[x[1]][x[2]])})
        + Cardinality({x \in Names \X (1..MaxHostile) : x[2] <= tampers[x[1]]})

\* lowest epoch of namespace n for which the directory has no proof yet
NextUnpublished(n) ==
    IF \A e \in Epochs : e >= ConfigStartingEpoch[n] => akd[n][e] # NoBlob THEN None
    ELSE CHOOSE e \in Epochs :
            /\ e >= ConfigStartingEpoch[n] /\ akd[n][e] = NoBlob
            /\ \A f \in Epochs : (f >= ConfigStartingEpoch[n] /\ f < e) => akd[n][f] # NoBlob

\* The AKD publishes the proof blob of its next epoch.  The directory is not
\* trusted: the previous hash in the blob name and the hash the append-only proof
\* really starts from are whatever the AKD chooses.  A published blob is
\* immutable and a worker reads the directory only while polling and fetching,
\* so a publication is observed at the worker's next poll.
AkdPublish(n, prev, start) ==
    /\ n \in configured
    /\ NextUnpublished(n) # None
    /\ pc[n] \in {"ready", "down"}
    /\ \/ prev = HonestPrevious(NextUnpublished(n)) /\ start = prev
       \/ Hostile /\ HostileActs < MaxHostile
    /\ akd' = [akd EXCEPT ![n][NextUnpublished(n)] =
                 [epoch |-> NextUnpublished(n), previous_hash |-> prev,
                  current_hash |-> CurrentHash(NextUnpublished(n)),
                  proof_start |-> start,
                  proof_end |-> CurrentHash(NextUnpublished(n))]]
    /\ UNCHANGED <<readerVars, repoVars, storage_kind, configured, phase, starts, namespaces, signatures, keyVars,
                   workerVars, shutdown_rx, tampers, reconciled>>

\* AkdStorage::has_proof
has_proof(dir, e) == e \in DOMAIN dir /\ dir[e] # NoBlob

\* AkdStorage::get_proof_name: the (epoch, previous_hash, current_hash) triple
get_proof_name(dir, e) ==
    [epoch |-> dir[e].epoch, previous_hash |-> dir[e].previous_hash,
     current_hash |-> dir[e].current_hash]

\* akd_configurations::verify_consecutive_append_only: the proof shows that
\* end_hash at end_epoch extends start_hash
verify_consecutive_append_only(proof, start_hash, end_hash) ==
    proof.proof_start = start_hash /\ proof.proof_end = end_hash

(* --------------------- namespace_auditor.rs: polling ------------------- *)
\* variant: steps over an epoch
EpochNextSkipping(e) == e + 2

\* Epoch::next
EpochNext(e) == e + 1

\* variant: the loop is left after the first proof name
PollLoopOnce(dir, next_epoch, result, name_fails) ==
    IF has_proof(dir, next_epoch) /\ next_epoch \notin name_fails
    THEN <<get_proof_name(dir, next_epoch)>> ELSE <<>>

RECURSIVE PollLoopDiscarding(_, _, _, _)
\* variant: a failed get_proof_name discards the names gathered before it
PollLoopDiscarding(dir, next_epoch, result, name_fails) ==
    IF /\ Len(result) < MAX_EPOCHS_PER_POLL
       /\ has_proof(dir, next_epoch)
    THEN IF next_epoch \in name_fails THEN <<>>
         ELSE PollLoopDiscarding(dir, EpochNext(next_epoch),
                                 Append(result, get_proof_name(dir, next_epoch)), name_fails)
    ELSE result

RECURSIVE PollLoop(_, _, _, _)
\* the loop of poll_for_new_epochs; name_fails are the epochs whose
\* get_proof_name call returns an error (the listing request fails, or the
\* published key does not parse as a blob name)
PollLoop(dir, next_epoch, result, name_fails) ==
    IF /\ Len(result) < MAX_EPOCHS_PER_POLL
       /\ has_proof(dir, next_epoch)
       /\ next_epoch \notin name_fails
    THEN PollLoop(dir, EpochNext(next_epoch),
                  Append(result, get_proof_name(dir, next_epoch)), name_fails)
    ELSE result

\* variant: a namespace without last_verified_epoch is polled from the epoch
\* after its starting_epoch
poll_for_new_epochs_after_start(info, dir, name_fails) ==
    LET next_epoch == IF info.last_verified_epoch # None
                      THEN EpochNext(info.last_verified_epoch)
                      ELSE EpochNext(info.starting_epoch)
    IN  PollLoop(dir, next_epoch, <<>>, name_fails)

\* NamespaceAuditor::poll_for_new_epochs
poll_for_new_epochs(info, dir, name_fails) ==
    LET next_epoch == IF info.last_verified_epoch # None
                      THEN EpochNext(info.last_verified_epoch)
                      ELSE info.starting_epoch
    IN  PollLoop(dir, next_epoch, <<>>, name_fails)

\* variant: the sleep is shortened after every cycle that processed an epoch
ChosenSleepDurationAnyProgress(processed_count) ==
    IF processed_count = 0 THEN "configured" ELSE "minimal"

\* NamespaceAuditor::interruptible_sleep, the duration it sleeps for: the
\* configured sleep_duration, or 10 ms after a cycle that processed
\* MAX_EPOCHS_PER_POLL epochs
ChosenSleepDuration(processed_count) ==
    IF processed_count # MAX_EPOCHS_PER_POLL THEN "configured" ELSE "minimal"

\* the get_proof_name failures of one poll: none, or the call for one epoch
NameFailures == {{}} \cup { {e} : e \in Epochs }

\* NamespaceAuditor::run_audit_cycle up to its processing loop: read the fresh
\* NamespaceInfo, refuse an absent or inactive namespace, poll.  A directory
\* whose proof names cannot be retrieved belongs to the hostile environment.
RunAuditCycle(n, name_fails) ==
    /\ pc[n] = "ready"
    /\ name_fails = {} \/ Hostile
    /\ LET info == namespaces[n]
       IN  IF info = NoInfo \/ ~is_active(info.status)
           THEN /\ pc' = [pc EXCEPT ![n] = "stopped"]
                /\ UNCHANGED <<namespace_info, blob_names, idx, sleep_duration>>
           ELSE IF poll_for_new_epochs(info, akd[n], name_fails) = <<>>
           THEN /\ pc' = [pc EXCEPT ![n] = "sleeping"]
                /\ sleep_duration' = [sleep_duration EXCEPT ![n] = ChosenSleepDuration(0)]
                /\ UNCHANGED <<namespace_info, blob_names, idx>>
           ELSE /\ UNCHANGED sleep_duration
                /\ namespace_info' = [namespace_info EXCEPT ![n] = info]
                /\ blob_names' = [blob_names EXCEPT ![n] =
                                     poll_for_new_epochs(info, akd[n], name_fails)]
                /\ idx' = [idx EXCEPT ![n] = 0]
                /\ pc' = [pc EXCEPT ![n] = "processing"]
    /\ UNCHANGED <<readerVars, repoVars, storage_kind, configured, phase, starts, namespaces, signatures, keyVars, akd,
                   shutdown_rx, tampers, last_event, reconciled>>

\* SignatureRepository::get_signature; None is NoSig
get_signature(store, epoch) == IF epoch \in DOMAIN store THEN store[epoch] ELSE NoSig

\* SignatureRepository::has_signature: the key is in the map, the sig file exists
has_signature(store, epoch) == store[epoch] # NoSig

(* ---------------- namespace_auditor.rs: processing one blob ------------- *)
\* NamespaceAuditor::get_and_verify_signature: "none" when no signature is stored,
\* "ok" when the stored one verifies, else the VerifyError
get_and_verify_signature(n, epoch) ==
    IF get_signature(signatures[n], epoch) = NoSig THEN "none"
    ELSE Verify(get_signature(signatures[n], epoch), VerifyingKeyRepository)

\* variant: the previous hash of the blob name anchors every epoch
anchor_source_always_blob(blob_name, info) == "blob"

\* variant: every epoch is anchored at the stored signature of the epoch before
anchor_source_never_blob(blob_name, info) == "stored"

\* the result of blob_name.epoch - 1 on u64 when the epoch is 0: a panic in a
\* build with overflow checks, u64::MAX without
Underflowed == -2

\* verify_blob: let previous_epoch = blob_name.epoch - 1
EpochPrevious(epoch) == IF epoch >= 1 THEN epoch - 1 ELSE Underflowed

\* verify_blob: where the start hash of the proof check is taken from
anchor_source(blob_name, info) ==
    IF blob_name.epoch = info.starting_epoch THEN "blob" ELSE "stored"

\* NamespaceAuditor::verify_blob: download, decode, pick the anchor, check the proof
verify_blob(n, blob_name, info, download_ok) ==
    IF ~download_ok
    THEN [outcome |-> "StorageError", anchor |-> None, anchor_source |-> "none"]
    ELSE LET audit_blob == akd[n][blob_name.epoch]
             previous_hash_from_blob == blob_name.previous_hash
             end_hash == blob_name.current_hash
         IN  IF anchor_source(blob_name, info) = "blob"
             THEN [outcome |-> IF verify_consecutive_append_only(
                                      audit_blob, previous_hash_from_blob, end_hash)
                               THEN "verified" ELSE "AkdVerificationError",
                   anchor |-> previous_hash_from_blob, anchor_source |-> "blob"]
             ELSE LET previous_epoch == EpochPrevious(blob_name.epoch)
                      previous == get_and_verify_signature(n, previous_epoch)
                  IN  IF previous = "none"
                      THEN [outcome |-> "SignatureNotFound", anchor |-> None,
                            anchor_source |-> "stored"]
                      ELSE IF previous # "ok"
                      THEN [outcome |-> previous, anchor |-> None,
                            anchor_source |-> "stored"]
                      ELSE [outcome |-> IF verify_consecutive_append_only(audit_blob,
                                              signatures[n][previous_epoch].digest, end_hash)
                                        THEN "verified" ELSE "AkdVerificationError",
                            anchor |-> signatures[n][previous_epoch].digest,
                            anchor_source |-> "stored"]

\* variant: an epoch that already has a verifying signature is audited again
process_audit_request_again(n, blob_name, info, download_ok) ==
    IF blob_name.epoch < info.starting_epoch
    THEN [outcome |-> "skipped_before_start", anchor |-> None, anchor_source |-> "none"]
    ELSE verify_blob(n, blob_name, info, download_ok)

\* NamespaceAuditor::process_audit_request up to the signing step
process_audit_request(n, blob_name, info, download_ok) ==
    IF blob_name.epoch < info.starting_epoch
    THEN [outcome |-> "skipped_before_start", anchor |-> None, anchor_source |-> "none"]
    ELSE IF get_and_verify_signature(n, blob_name.epoch) = "ok"
    THEN [outcome |-> "skipped_existing", anchor |-> None, anchor_source |-> "none"]
    ELSE IF get_and_verify_signature(n, blob_name.epoch) # "none"
    THEN [outcome |-> get_and_verify_signature(n, blob_name.epoch),
          anchor |-> None, anchor_source |-> "none"]
    ELSE verify_blob(n, blob_name, info, download_ok)

\* variant: the two failure statuses are exchanged
failure_status_swapped(error) ==
    IF error = "SignatureNotFound" THEN "SignatureVerificationFailed"
    ELSE "SignatureLost"

\* the status NamespaceAuditor::handle_audit_failure writes for an error
failure_status(error) ==
    IF error = "SignatureNotFound" THEN "SignatureLost"
    ELSE "SignatureVerificationFailed"

\* variant: the failure is logged but no status is written
handle_audit_failure_log_only(repo, n, info, error) == repo

\* NamespaceAuditor::handle_audit_failure: update_namespace of the cycle's
\* NamespaceInfo with the failure status (NamespaceNotFound leaves the map alone)
handle_audit_failure(repo, n, info, error) ==
    update_namespace(repo, n, update_status(info, failure_status(error))).repo

Event(blob_name, r, outcome) ==
    [epoch |-> blob_name.epoch, outcome |-> outcome, anchor |-> r.anchor,
     anchor_source |-> r.anchor_source]

\* variant: the signature is filed under the epoch before its own
set_signature_previous(store, epoch, signature) ==
    [store EXCEPT ![IF epoch > 0 THEN epoch - 1 ELSE epoch] = signature]

\* SignatureRepository::set_signature on one namespace's store: the in-memory
\* map keeps the value, the file keeps its bincode encoding, which get_signature
\* decodes; an entry of store is what get_signature returns for the epoch
set_signature(store, epoch, signature) ==
    [store EXCEPT ![epoch] = IF storage_kind = "File"
                             THEN DecodeSignature(EncodeSignature(signature))
                             ELSE signature]

\* NamespaceAuditor::sign_blob: take the current signing key (rotating an expired
\* one first), sign (epoch, current_hash) and store the signature.  The
\* file-backed repository's rotate_signing_key calls persist() while it still
\* holds the keys mutex; std::sync::Mutex is not reentrant, so that call either
\* deadlocks or panics and the caller never gets a key.
sign_blob(n, blob_name, info, r) ==
    IF storage_kind = "InMemory"
    THEN LET ks == get_current_signing_key(key_state, next_key_id)
         IN  /\ key_state' = ks
             /\ next_key_id' = IF ks # key_state THEN next_key_id + 1 ELSE next_key_id
             /\ signatures' = [signatures EXCEPT ![n] = set_signature(signatures[n],
                   blob_name.epoch,
                   Sign(n, blob_name.epoch, blob_name.current_hash, ks.current_signing_key,
                        UtcNow(signatures[n])))]
             /\ pc' = [pc EXCEPT ![n] = "recording"]
             /\ last_event' = [last_event EXCEPT ![n] = Event(blob_name, r, "signed")]
             /\ UNCHANGED <<keys_mutex, keys_file, verifying_file, lapsed>>
    ELSE IF keys_mutex # "free"
    THEN /\ pc' = [pc EXCEPT ![n] = IF keys_mutex = "deadlocked" THEN "hung" ELSE "panicked"]
         /\ last_event' = [last_event EXCEPT ![n] = Event(blob_name, r, "no_key")]
         /\ UNCHANGED <<signatures, keyVars>>
    ELSE IF IsExpired(key_state.current_signing_key)
    THEN /\ key_state' = Rotated(key_state, next_key_id)
         /\ next_key_id' = next_key_id + 1
         /\ \E relock \in RelockOutcomes :
               /\ keys_mutex' = relock
               /\ pc' = [pc EXCEPT ![n] = IF relock = "deadlocked" THEN "hung" ELSE "panicked"]
         /\ last_event' = [last_event EXCEPT ![n] = Event(blob_name, r, "no_key")]
         /\ UNCHANGED <<signatures, keys_file, verifying_file, lapsed>>
    ELSE /\ signatures' = [signatures EXCEPT ![n] = set_signature(signatures[n],
               blob_name.epoch,
               Sign(n, blob_name.epoch, blob_name.current_hash,
                    key_state.current_signing_key, UtcNow(signatures[n])))]
         /\ pc' = [pc EXCEPT ![n] = "recording"]
         /\ last_event' = [last_event EXCEPT ![n] = Event(blob_name, r, "signed")]
         /\ UNCHANGED keyVars

\* One iteration of run_audit_cycle's loop up to the result of
\* process_audit_request: on an error handle_audit_failure writes the failure
\* status and the cycle returns Err, which stops the worker.
ProcessAuditRequest(n, download_ok) ==
    /\ pc[n] = "processing"
    /\ LET blob_name == blob_names[n][idx[n] + 1]
           info == namespace_info[n]
           r == process_audit_request(n, blob_name, info, download_ok)
       IN  IF r.outcome \in {"skipped_before_start", "skipped_existing"}
           THEN /\ pc' = [pc EXCEPT ![n] = "recording"]
                /\ last_event' = [last_event EXCEPT ![n] = Event(blob_name, r, r.outcome)]
                /\ UNCHANGED <<namespaces, state_file, signatures, keyVars>>
           ELSE IF r.outcome = "verified"
           THEN /\ sign_blob(n, blob_name, info, r)
                /\ UNCHANGED <<namespaces, state_file>>
           ELSE /\ namespaces' = handle_audit_failure(namespaces, n, info, r.outcome)
                /\ state_file' = Persisted(state_file,
                                     handle_audit_failure(namespaces, n, info, r.outcome),
                                     namespaces[n] # NoInfo)
                /\ pc' = [pc EXCEPT ![n] = "stopped"]
                /\ last_event' = [last_event EXCEPT ![n] = Event(blob_name, r, r.outcome)]
                /\ UNCHANGED <<signatures, keyVars>>
    /\ IF pc'[n] = "recording" THEN UNCHANGED <<namespace_info, blob_names, idx>>
       ELSE CycleLocalsDropped(n)
    /\ UNCHANGED <<readerVars, repo_call, sleep_duration, storage_kind, configured, phase, starts, akd, shutdown_rx, tampers,
                   reconciled>>

\* The else branch of run_audit_cycle's loop: record the successful audit in the
\* namespace repository, then go on to the next blob name or return Ok(len).
RecordSuccess(n) ==
    /\ pc[n] = "recording"
    /\ LET call == update_namespace(namespaces, n,
                       update_last_verified_epoch(namespace_info[n],
                                                  blob_names[n][idx[n] + 1].epoch))
       IN
       IF call.result # "Ok"
       THEN /\ pc' = [pc EXCEPT ![n] = "stopped"]
            /\ CycleLocalsDropped(n)
            /\ UNCHANGED <<namespaces, state_file, sleep_duration>>
       ELSE /\ namespaces' = call.repo
            /\ state_file' = Persisted(state_file, call.repo, TRUE)
            /\ IF idx[n] + 1 = Len(blob_names[n])
               THEN /\ pc' = [pc EXCEPT ![n] = "sleeping"]
                    /\ sleep_duration' = [sleep_duration EXCEPT ![n] =
                                              ChosenSleepDuration(Len(blob_names[n]))]
                    /\ CycleLocalsDropped(n)
               ELSE /\ pc' = [pc EXCEPT ![n] = "processing"]
                    /\ idx' = [idx EXCEPT ![n] = idx[n] + 1]
                    /\ UNCHANGED <<namespace_info, blob_names, sleep_duration>>
    /\ UNCHANGED <<readerVars, repo_call, storage_kind, configured, phase, starts, signatures, keyVars, akd,
                   shutdown_rx, tampers, last_event, reconciled>>

(* ----------------- interruptible sleep, shutdown, exit ----------------- *)
\* variant: the select may take the sleep branch while a message is waiting
interruptible_sleep_racing(signal) == IF signal THEN {TRUE, FALSE} ELSE {FALSE}

\* variant: the sleep is not interrupted
interruptible_sleep_deaf(signal) == {FALSE}

\* interruptible_sleep, the values it can return now: tokio::select! over
\* sleep(duration) and signal.recv().  A message waiting in the receiver makes
\* the recv branch ready at once, the sleep branch is ready only after the
\* duration (the configured seconds or 10 ms); with no message the select waits
\* for the sleep, or for a message sent meanwhile.
interruptible_sleep(signal) == IF signal THEN {TRUE} ELSE {FALSE}

\* interruptible_sleep: the sleep branch of the select completes
SleepCompleted(n) ==
    /\ pc[n] = "sleeping"
    /\ FALSE \in interruptible_sleep(shutdown_rx[n])
    /\ pc' = [pc EXCEPT ![n] = "ready"]
    /\ sleep_duration' = [sleep_duration EXCEPT ![n] = "none"]
    /\ UNCHANGED <<readerVars, repoVars, storage_kind, configured, phase, starts, namespaces, signatures, keyVars, akd,
                   namespace_info, blob_names, idx, shutdown_rx, tampers, last_event,
                   reconciled>>

\* interruptible_sleep: the recv branch of the select completes
ShutdownReceived(n) ==
    /\ pc[n] = "sleeping"
    /\ TRUE \in interruptible_sleep(shutdown_rx[n])
    /\ pc' = [pc EXCEPT ![n] = "stopped"]
    /\ sleep_duration' = [sleep_duration EXCEPT ![n] = "none"]
    /\ shutdown_rx' = [shutdown_rx EXCEPT ![n] = FALSE]
    /\ UNCHANGED <<readerVars, repoVars, storage_kind, configured, phase, starts, namespaces, signatures, keyVars, akd,
                   namespace_info, blob_names, idx, tampers, last_event, reconciled>>

\* variant: a message reaches only the receivers that are waiting in recv
shutdown_send_unbuffered(rx, worker_pc) == IF worker_pc = "sleeping" THEN TRUE ELSE rx

\* shutdown_tx.send(()) as one worker's receiver sees it: the broadcast channel
\* keeps the message for every subscribed receiver until that receiver calls
\* recv, whatever its task is doing when the message is sent
shutdown_send(rx, worker_pc) == TRUE

\* AuditorApp::shutdown: one send on the broadcast channel (a run against the
\* hostile environment ends by Crash instead)
Shutdown ==
    /\ ~Hostile
    /\ phase = "running"
    /\ \E n \in configured : ~shutdown_rx[n] /\ pc[n] \notin {"stopped", "panicked"}
    /\ shutdown_rx' = [n \in Names |->
                          IF n \notin configured \/ pc[n] \in {"stopped", "panicked"}
                          THEN shutdown_rx[n] ELSE shutdown_send(shutdown_rx[n], pc[n])]
    /\ UNCHANGED <<readerVars, repoVars, storage_kind, configured, phase, starts, namespaces, signatures, keyVars, akd,
                   workerVars, tampers, reconciled>>

\* AuditorApp::run returns once every worker handle has been joined
AppExit ==
    /\ phase = "running"
    /\ \A n \in configured : pc[n] \in {"stopped", "panicked"}
    /\ phase' = "down"
    /\ WorkersGone
    /\ UNCHANGED <<readerVars, repoVars, storage_kind, configured, starts, namespaces, signatures, keyVars, akd,
                   tampers, reconciled>>

\* the process is killed at an arbitrary point
Crash ==
    /\ Hostile
    /\ storage_kind = "File"
    /\ phase = "running"
    /\ starts < MaxStarts
    /\ phase' = "down"
    /\ WorkersGone
    /\ UNCHANGED <<readerVars, repoVars, storage_kind, configured, starts, namespaces, signatures, keyVars, akd,
                   tampers, reconciled>>

(* ------------------------------ environment ---------------------------- *)
\* wall-clock time passes the current signing key's not_after_date
KeyExpires ==
    /\ phase = "running"
    /\ keys_mutex = "free"
    /\ ~IsExpired(key_state.current_signing_key)
    /\ Cardinality(lapsed) < MaxExpiries
    /\ lapsed' = lapsed \cup {key_state.current_signing_key.key_id}
    /\ UNCHANGED <<readerVars, repoVars, storage_kind, configured, phase, starts, namespaces, signatures, key_state,
                   keys_mutex, keys_file, verifying_file, next_key_id, akd, workerVars,
                   shutdown_rx, tampers, reconciled>>

\* SigningKeyRepository::force_key_rotation, called by an operator: the current
\* key is replaced by a fresh one, expired and kept with the expired keys.  The
\* file-backed repository does this in rotate_signing_key, whose persist() call
\* meets the mutex the function still holds.
ForceKeyRotation ==
    /\ phase = "running"
    /\ keys_mutex = "free"
    /\ Len(key_state.expired_keys) < MaxRetired
    /\ key_state' = Rotated(key_state, next_key_id)
    /\ next_key_id' = next_key_id + 1
    /\ lapsed' = lapsed \cup {key_state.current_signing_key.key_id}
    /\ IF storage_kind = "File" THEN keys_mutex' \in RelockOutcomes
       ELSE UNCHANGED keys_mutex
    /\ UNCHANGED <<readerVars, repoVars, storage_kind, configured, phase, starts, namespaces, signatures,
                   keys_file, verifying_file, akd, workerVars, shutdown_rx, tampers,
                   reconciled>>

\* a signature file is deleted out-of-band.  The auditor reads back only the
\* signatures at and after last_verified_epoch, so these are the modifications it
\* can meet.
TamperDelete(n, e) ==
    /\ Hostile
    /\ storage_kind = "File"
    /\ signatures[n][e] # NoSig
    /\ e >= namespaces[n].last_verified_epoch
    /\ pc[n] # "recording"
    /\ HostileActs < MaxHostile
    /\ signatures' = [signatures EXCEPT ![n][e] = NoSig]
    /\ tampers' = [tampers EXCEPT ![n] = tampers[n] + 1]
    /\ UNCHANGED <<readerVars, repoVars, storage_kind, configured, phase, starts, namespaces, keyVars, akd, workerVars,
                   shutdown_rx, reconciled>>

\* a signature file is rewritten out-of-band: its digest bytes or its key id
\* are altered
TamperRewrite(n, e, field) ==
    /\ Hostile
    /\ storage_kind = "File"
    /\ signatures[n][e] # NoSig
    /\ e >= namespaces[n].last_verified_epoch
    /\ pc[n] # "recording"
    /\ HostileActs < MaxHostile
    /\ signatures' = IF field = "digest"
                     THEN [signatures EXCEPT ![n][e].digest = 1 - signatures[n][e].digest]
                     ELSE [signatures EXCEPT ![n][e].key_id = 0]
    /\ tampers' = [tampers EXCEPT ![n] = tampers[n] + 1]
    /\ UNCHANGED <<readerVars, repoVars, storage_kind, configured, phase, starts, namespaces, keyVars, akd, workerVars,
                   shutdown_rx, reconciled>>

Next ==
    \/ \E config \in NamespaceConfigs : AppStart(config)
    \/ \E n \in Names : \E prev \in Digests : \E start \in Digests : AkdPublish(n, prev, start)
    \/ \E n \in Names : \E name_fails \in NameFailures : RunAuditCycle(n, name_fails)
    \/ \E n \in Names : \E download_ok \in BOOLEAN : ProcessAuditRequest(n, download_ok)
    \/ \E n \in Names : RecordSuccess(n)
    \/ \E n \in Names : SleepCompleted(n)
    \/ \E n \in Names : ShutdownReceived(n)
    \/ Shutdown
    \/ AppExit
    \/ Crash
    \/ KeyExpires
    \/ \E n \in Names : \E e \in Epochs : TamperDelete(n, e)
    \/ \E n \in Names : \E e \in Epochs : \E field \in {"digest", "key_id"} :
            TamperRewrite(n, e, field)

Spec == Init /\ [][Next]_vars

(* ------------------------------ properties ----------------------------- *)
\* a step in which worker n finishes one process_audit_request
ProcessStep(n) == pc[n] = "processing" /\ pc'[n] \notin {"processing", "down"}

\* worker n persists a signature for epoch e in this step
Persists(n, e) ==
    /\ signatures'[n][e] # signatures[n][e]
    /\ signatures'[n][e] # NoSig
    /\ tampers'[n] = tampers[n]

\* the errors a failed verification of a blob or of a stored signature raises
VerificationFailures ==
    {"AkdVerificationError", "SignatureVerificationFailed", "VerifyingKeyNotFound"}

AnchorIsStoredDigest ==
    [][\A n \in Names : \A e \in Epochs :
         (Persists(n, e) /\ e > namespace_info[n].starting_epoch) =>
            /\ last_event'[n].epoch = e
            /\ last_event'[n].anchor_source = "stored"
            /\ last_event'[n].anchor = signatures[n][e - 1].digest
            /\ Verify(signatures[n][e - 1], VerifyingKeyRepository) = "ok"
            /\ akd[n][e].proof_start = signatures[n][e - 1].digest]_vars

\* C2 witness: an epoch above starting_epoch was signed from the stored digest
\* although its blob name announced a different previous hash
AnchorIsStoredDigestWitness ==
    \E n \in Names :
        /\ last_event[n].outcome = "signed"
        /\ last_event[n].epoch > namespaces[n].starting_epoch
        /\ last_event[n].anchor_source = "stored"
        /\ akd[n][last_event[n].epoch].previous_hash # last_event[n].anchor

AscendingGapFree ==
    [][\A n \in Names :
         /\ (ProcessStep(n) /\ last_event[n] # NoEvent) =>
               last_event'[n].epoch = last_event[n].epoch + 1
         /\ \A e \in Epochs :
               (Persists(n, e) /\ e > namespace_info[n].starting_epoch) =>
                   signatures[n][e - 1] # NoSig]_vars

\* C5 witness: the second blob of one cycle has been signed, right after the
\* first, and both signatures are stored
AscendingGapFreeWitness ==
    \E n \in Names :
        /\ pc[n] = "recording"
        /\ idx[n] = 1
        /\ last_event[n].outcome = "signed"
        /\ signatures[n][last_event[n].epoch] # NoSig
        /\ signatures[n][last_event[n].epoch - 1] # NoSig

\* C6 - every signature in a store nobody modified out-of-band verifies against
\* the verifying-key view, whatever key rotations have happened since it was
\* made.
StoredSignaturesVerify ==
    \A n \in Names : \A e \in Epochs :
        (tampers[n] = 0 /\ signatures[n][e] # NoSig) =>
            Verify(signatures[n][e], VerifyingKeyRepository) = "ok"

\* C6 witness: signatures made under two different keys are stored, the older
\* key having been rotated out
StoredSignaturesVerifyWitness ==
    \E n \in Names : \E e \in Epochs : \E m \in Names : \E f \in Epochs :
        /\ signatures[n][e] # NoSig /\ signatures[m][f] # NoSig
        /\ tampers[n] = 0 /\ tampers[m] = 0
        /\ signatures[n][e].key_id # signatures[m][f].key_id
        /\ signatures[n][e].key_id # key_state.current_signing_key.key_id
        /\ Len(key_state.expired_keys) > 0

\* C7 - when the verification of an epoch's blob or of a stored signature fails,
\* that step sets the status to SignatureVerificationFailed, persists no
\* signature, leaves last_verified_epoch below the epoch, and stops the worker;
\* a stopped worker takes no further step while the process lives.
VerificationFailureStops ==
    [][\A n \in Names :
         /\ (ProcessStep(n) /\ last_event'[n].outcome \in VerificationFailures) =>
               /\ namespaces'[n].status = "SignatureVerificationFailed"
               /\ signatures' = signatures
               /\ namespaces'[n].last_verified_epoch < last_event'[n].epoch
               /\ pc'[n] = "stopped"
         /\ pc[n] = "stopped" => pc'[n] \in {"stopped", "down"}]_vars

\* C7 witness: a proof that does not extend its anchor was rejected
VerificationFailureStopsWitness ==
    \E n \in Names :
        /\ last_event[n].outcome = "AkdVerificationError"
        /\ namespaces[n].status = "SignatureVerificationFailed"
        /\ signatures[n][last_event[n].epoch] = NoSig
        /\ pc[n] = "stopped"

\* C8 - processing an epoch e above the starting_epoch whose blob was fetched
\* while no signature is stored at e - 1 (nor at e) fails with SignatureNotFound;
\* the status becomes SignatureLost, no signature for e is produced and the
\* worker stops.
MissingPredecessorIsLost ==
    [][\A n \in Names :
         /\ (ProcessStep(n) /\ last_event'[n].outcome = "SignatureNotFound") =>
               /\ last_event'[n].epoch > namespace_info[n].starting_epoch
               /\ signatures[n][last_event'[n].epoch - 1] = NoSig
               /\ namespaces'[n].status = "SignatureLost"
               /\ signatures' = signatures
               /\ signatures'[n][last_event'[n].epoch] = NoSig
               /\ pc'[n] = "stopped"
         /\ (/\ ProcessStep(n)
             /\ last_event'[n].epoch > namespace_info[n].starting_epoch
             /\ signatures[n][last_event'[n].epoch] = NoSig
             /\ signatures[n][last_event'[n].epoch - 1] = NoSig
             /\ last_event'[n].outcome # "StorageError") =>
               last_event'[n].outcome = "SignatureNotFound"]_vars

\* C8 witness: the predecessor of an epoch was gone and the namespace is
\* SignatureLost
MissingPredecessorIsLostWitness ==
    \E n \in Names :
        /\ last_event[n].outcome = "SignatureNotFound"
        /\ namespaces[n].status = "SignatureLost"
        /\ signatures[n][last_event[n].epoch] = NoSig
        /\ pc[n] = "stopped"

ReconcileKeepsSticky ==
    \A n \in Names :
        reconciled[n].existing_status \in StickyStatuses =>
            /\ reconciled[n].status = reconciled[n].existing_status
            /\ reconciled[n].changed = FALSE
            /\ reconciled[n].op = "none"
            /\ namespaces[n].status = reconciled[n].existing_status

\* C10 witness: a restart whose configuration says Online has met a namespace
\* stored as SignatureVerificationFailed and left it alone
ReconcileKeepsStickyWitness ==
    \E n \in Names :
        /\ reconciled[n].existing_status = "SignatureVerificationFailed"
        /\ reconciled[n].config_status = "Online"
        /\ namespaces[n].status = "SignatureVerificationFailed"
        /\ reconciled[n].op = "none"
        /\ phase = "running"

\* C13 - the key a worker's get_current_signing_key call returns (the key its
\* signature carries): if the current key is not expired it is that key and the
\* repository does not rotate; if it is expired the repository appends it to the
\* expired keys and installs a fresh key, and the returned key is the new current
\* key, is not expired and has another key_id than the expired one.
CurrentKeyRotatesOnlyExpired ==
    [][\A n \in Names : \A e \in Epochs :
         Persists(n, e) =>
            LET returned == signatures'[n][e].key_id
                old == key_state.current_signing_key
            IN  /\ returned = key_state'.current_signing_key.key_id
                /\ returned \notin lapsed'
                /\ IF IsExpired(old)
                   THEN /\ key_state'.expired_keys = Append(key_state.expired_keys, old)
                        /\ returned # old.key_id
                   ELSE /\ key_state' = key_state
                        /\ returned = old.key_id]_vars

\* C13 witness: a worker signed with the first key, the key expired, and the
\* worker's next signature carries the fresh key that replaced it
CurrentKeyRotatesOnlyExpiredWitness ==
    \E n \in Names : \E e \in Epochs :
        /\ last_event[n].outcome = "signed" /\ last_event[n].epoch = e
        /\ e > 0 /\ signatures[n][e - 1] # NoSig
        /\ Len(key_state.expired_keys) = 1
        /\ signatures[n][e - 1].key_id = key_state.expired_keys[1].key_id
        /\ key_state.expired_keys[1].key_id \in lapsed
        /\ signatures[n][e].key_id = key_state.current_signing_key.key_id
        /\ ~IsExpired(key_state.current_signing_key)

\* C15 - file-backed signing keys: under every interleaving of the callers, the
\* key a get_current_signing_key call returns (the key a stored signature was
\* made with) has its verifying key in keys_verifying.json, and is in keys.json,
\* at the moment it is returned.
ReturnedKeyIsPersisted ==
    [][\A n \in Names : \A e \in Epochs :
         (storage_kind = "File" /\ Persists(n, e)) =>
            /\ [key_id |-> signatures'[n][e].key_id,
                public |-> signatures'[n][e].signed_by] \in verifying_file
            /\ [key_id |-> signatures'[n][e].key_id,
                public |-> signatures'[n][e].signed_by] \in ToVerifyingKeys(keys_file)]_vars

\* C15 witness: a worker's rotation has replaced the expired key in memory and
\* is stuck before anything was written; the fresh key is not in
\* keys_verifying.json, and the other worker, asking for a key meanwhile, got none
ReturnedKeyIsPersistedWitness ==
    \E n \in Names : \E m \in Names :
        /\ n # m
        /\ storage_kind = "File"
        /\ keys_mutex # "free"
        /\ VerifyingKeyOf(key_state.current_signing_key) \notin verifying_file
        /\ last_event[n].outcome = "no_key" /\ pc[n] \in {"hung", "panicked"}
        /\ last_event[m].outcome = "no_key" /\ pc[m] \in {"hung", "panicked"}
        /\ \E e \in Epochs : signatures[m][e] # NoSig

\* C16 - key monotonicity of the file-backed repository: no step, a
\* reconstruction of the repository from its files included, removes a key from
\* keys_verifying.json or from keys.json, and after every step the key_id of each
\* signature in a store nobody modified, and of the current key once the
\* repository is constructed, resolves in verifying_key_repository().
KeysSurviveRestart ==
    [][storage_kind = "File" =>
         /\ verifying_file \subseteq verifying_file'
         /\ ToVerifyingKeys(keys_file) \ {VerifyingKeyOf(NoKey)}
               \subseteq ToVerifyingKeys(keys_file')
         /\ \A n \in Names : \A e \in Epochs :
               (tampers'[n] = 0 /\ signatures'[n][e] # NoSig) =>
                   \E vk \in verifying_file' : vk.key_id = signatures'[n][e].key_id
         /\ (phase' = "running" /\ keys_mutex' = "free") =>
               VerifyingKeyOf(key_state'.current_signing_key) \in verifying_file']_vars

\* C16 witness: the process has been started a second time on the files of the
\* first; the worker has not processed anything yet, and the signature the first
\* process stored carries a key_id that keys_verifying.json resolves
KeysSurviveRestartWitness ==
    \E n \in Names : \E e \in Epochs :
        /\ storage_kind = "File"
        /\ starts = 2 /\ phase = "running"
        /\ pc[n] = "ready" /\ last_event[n] = NoEvent
        /\ tampers[n] = 0 /\ signatures[n][e] # NoSig
        /\ \E vk \in VerifyingKeyRepository : vk.key_id = signatures[n][e].key_id
        /\ key_state = keys_file

\* C19 - process_audit_request for a blob whose epoch (at or above the
\* starting_epoch) has a stored signature that verifies is a no-op that succeeds:
\* the signature store is left as it is (the stored signature keeps its key_id,
\* timestamp and digest), no proof is fetched or checked whether or not the
\* download would work, the signing-key repository is not touched (an expired
\* key is not rotated), the NamespaceInfo is not written, and the worker goes on
\* as after a successful audit.
ProcessedEpochIsSkipped ==
    [][\A n \in Names :
         (/\ ProcessStep(n)
          /\ blob_names[n][idx[n] + 1].epoch >= namespace_info[n].starting_epoch
          /\ get_and_verify_signature(n, blob_names[n][idx[n] + 1].epoch) = "ok") =>
            /\ signatures' = signatures
            /\ UNCHANGED keyVars
            /\ namespaces' = namespaces
            /\ last_event'[n].outcome = "skipped_existing"
            /\ last_event'[n].anchor_source = "none"
            /\ pc'[n] = "recording"]_vars

\* C19 witness: a worker met the signature it had stored for the epoch before
\* the process was killed, and skipped the epoch although the current signing
\* key has expired since
ProcessedEpochIsSkippedWitness ==
    \E n \in Names :
        /\ last_event[n].outcome = "skipped_existing"
        /\ pc[n] = "recording"
        /\ starts = 2
        /\ signatures[n][last_event[n].epoch] # NoSig
        /\ signatures[n][last_event[n].epoch].key_id = key_state.current_signing_key.key_id
        /\ IsExpired(key_state.current_signing_key)
        /\ keys_mutex = "free"

(* ------------- reconfiguration: starting_epoch edited between starts ---- *)
\* the configurations an operator can write when the starting_epoch of a
\* namespace is edited as well as its status
EditedNamespaceConfigs == [configured -> [status : ConfigStatuses, starting_epoch : Epochs]]

\* one namespace on file-backed stores, so that the process can be started again
InitReconfigure == Init /\ storage_kind = "File" /\ configured = {"a"}

NextReconfigure ==
    \/ \E config \in EditedNamespaceConfigs : AppStart(config)
    \/ \E n \in Names : \E prev \in Digests : \E start \in Digests : AkdPublish(n, prev, start)
    \/ \E n \in Names : \E name_fails \in NameFailures : RunAuditCycle(n, name_fails)
    \/ \E n \in Names : \E download_ok \in BOOLEAN : ProcessAuditRequest(n, download_ok)
    \/ \E n \in Names : RecordSuccess(n)
    \/ \E n \in Names : SleepCompleted(n)
    \/ AppExit
    \/ Crash

SpecReconfigure == InitReconfigure /\ [][NextReconfigure]_vars

ReconcileResetsStaleEpoch ==
    [][\A n \in Names :
         (/\ phase = "down" /\ phase' = "running"
          /\ reconciled'[n] # NoReconcile
          /\ namespaces[n] # NoInfo
          /\ namespaces[n].last_verified_epoch # None
          /\ namespaces[n].last_verified_epoch < reconciled'[n].config_starting_epoch) =>
            /\ reconciled'[n].changed = TRUE
            /\ reconciled'[n].op = "update"
            /\ namespaces'[n].last_verified_epoch = None]_vars

(* ------------- the signing-key repository under forced rotations -------- *)
\* one namespace: its worker is the caller of get_current_signing_key, an
\* operator forces rotations, and a file-backed deployment is started again
InitKeys == Init /\ configured = {"a"}

NextKeys ==
    \/ \E config \in NamespaceConfigs : AppStart(config)
    \/ \E n \in Names : \E prev \in Digests : \E start \in Digests : AkdPublish(n, prev, start)
    \/ \E n \in Names : \E name_fails \in NameFailures : RunAuditCycle(n, name_fails)
    \/ \E n \in Names : \E download_ok \in BOOLEAN : ProcessAuditRequest(n, download_ok)
    \/ \E n \in Names : RecordSuccess(n)
    \/ \E n \in Names : SleepCompleted(n)
    \/ KeyExpires
    \/ ForceKeyRotation
    \/ AppExit
    \/ Crash

SpecKeys == InitKeys /\ [][NextKeys]_vars

\* the key ids of the expired keys, in the order the keys were retired
RetiredIds == [i \in 1..Len(key_state.expired_keys) |-> key_state.expired_keys[i].key_id]

get_verifying_key_from_memory(map, key_id) ==
    IF \E k \in map : k.key_id = key_id
    THEN CHOOSE k \in map : k.key_id = key_id
    ELSE NoVerifyingKey

\* FileVerifyingKeyRepository::populate_in_memory_map: every key of the file is
\* inserted under its key_id; an absent file is an empty one
populate_in_memory_map(map, file) ==
    { k \in map : ~(\E f \in file : f.key_id = k.key_id) } \cup file

\* variant: only the in-memory map is consulted
get_verifying_key_memory_only(map, file, key_id) ==
    [map |-> map, result |-> get_verifying_key_from_memory(map, key_id),
     missed |-> get_verifying_key_from_memory(map, key_id) = NoVerifyingKey]

\* FileVerifyingKeyRepository::get_verifying_key: the map the call leaves behind,
\* what it returns, and whether it had to read the file
get_verifying_key(map, file, key_id) ==
    IF get_verifying_key_from_memory(map, key_id) # NoVerifyingKey
    THEN [map |-> map, result |-> get_verifying_key_from_memory(map, key_id),
          missed |-> FALSE]
    ELSE [map |-> populate_in_memory_map(map, file),
          result |-> get_verifying_key_from_memory(populate_in_memory_map(map, file),
                                                   key_id),
          missed |-> TRUE]

\* FileVerifyingKeyRepository::new
ReaderNew ==
    /\ verifying_keys' = populate_in_memory_map({}, verifying_file)
    /\ lookup' = NoLookup
    /\ UNCHANGED <<repoVars, storage_kind, configured, phase, starts, namespaces, signatures, keyVars,
                   akd, workerVars, shutdown_rx, tampers, reconciled>>

\* a caller asks the reader for a key_id
ReaderGetVerifyingKey(key_id) ==
    /\ LET r == get_verifying_key(verifying_keys, verifying_file, key_id)
       IN  /\ verifying_keys' = r.map
           /\ lookup' = [key_id |-> key_id, result |-> r.result, missed |-> r.missed]
    /\ UNCHANGED <<repoVars, storage_kind, configured, phase, starts, namespaces, signatures, keyVars,
                   akd, workerVars, shutdown_rx, tampers, reconciled>>

\* keys_verifying.json is written with one more key by the signing-key
\* repository that owns it (persist); the reader has no part in it
VerifyingFileWritten(id) ==
    /\ ~(\E k \in verifying_file : k.key_id = id)
    /\ verifying_file' = verifying_file \cup {VerifyingKeyOf(Generate(id))}
    /\ UNCHANGED <<readerVars, repoVars, storage_kind, configured, phase, starts, namespaces,
                   signatures, key_state, keys_mutex, keys_file, next_key_id, lapsed, akd,
                   workerVars, shutdown_rx, tampers, reconciled>>

InitReader == Init /\ storage_kind = "File" /\ configured = {"a"}

NextReader ==
    \/ ReaderNew
    \/ \E key_id \in 1..(MaxReaderKeys + 1) : ReaderGetVerifyingKey(key_id)
    \/ \E id \in 1..MaxReaderKeys : VerifyingFileWritten(id)

SpecReader == InitReader /\ [][NextReader]_vars

\* a step that is a get_verifying_key call
GetVerifyingKeyStep ==
    /\ lookup'.key_id # None
    /\ verifying_file' = verifying_file
    /\ lookup' # lookup \/ verifying_keys' # verifying_keys

\* C17 - a get_verifying_key call on a file-backed reader returns the key of the
\* asked key_id whenever the reader's map or keys_verifying.json as it is now
\* (whatever was written since the reader was created) holds it; when the map
\* misses, the file is read again, and None is returned only if the file has no
\* key of that key_id either.
ReaderReloadsOnMiss ==
    [][GetVerifyingKeyStep =>
         LET id == lookup'.key_id
             in_map == \E k \in verifying_keys : k.key_id = id
             in_file == \E k \in verifying_file : k.key_id = id
         IN  /\ (in_map \/ in_file) =>
                   /\ lookup'.result.key_id = id
                   /\ lookup'.result \in verifying_keys \cup verifying_file
             /\ lookup'.result = NoVerifyingKey => (~in_map /\ ~in_file)
             /\ ~in_map => verifying_file \subseteq verifying_keys'
             /\ lookup'.missed = ~in_map]_vars

\* C17 witness: the reader was created, its map missed the asked key_id, and the
\* call returned the key from the file as written after the map was filled last
ReaderReloadsOnMissWitness ==
    /\ lookup.key_id # None
    /\ lookup.missed
    /\ lookup.result # NoVerifyingKey
    /\ lookup.result.key_id = lookup.key_id
    /\ Cardinality(verifying_keys) >= 2

(* ------------- poll_for_new_epochs on long directories ------------------ *)
\* the epochs of a directory long enough for a poll to reach its limit
PollEpochs == 0..(MAX_EPOCHS_PER_POLL + MaxEpoch)

\* the blob an honest directory publishes for epoch e
HonestBlob(e) ==
    [epoch |-> e, previous_hash |-> HonestPrevious(e), current_hash |-> CurrentHash(e),
     proof_start |-> HonestPrevious(e), proof_end |-> CurrentHash(e)]

\* a directory holding the proofs of the epochs up to high, but for one
PollDirectory(high, gap) ==
    [e \in PollEpochs |-> IF e <= high /\ e # gap THEN HonestBlob(e) ELSE NoBlob]

\* the epochs at which a directory is given a gap
PollGaps == {None, 1, MaxEpoch + 1, MAX_EPOCHS_PER_POLL}

\* the highest published epochs tried: short directories, and directories
\* around the length at which a poll reaches its limit
PollHighs == {None} \cup Epochs \cup ((MAX_EPOCHS_PER_POLL - 2)..(MAX_EPOCHS_PER_POLL + MaxEpoch))

\* the get_proof_name failures of one poll of a long directory: none, or the
\* call for one epoch, near the start or near the limit
PollNameFailures ==
    {{}} \cup { {e} : e \in Epochs \cup ((MAX_EPOCHS_PER_POLL - 1)..(MAX_EPOCHS_PER_POLL + 1)) }

\* a running auditor whose worker for namespace a is about to poll: the
\* NamespaceInfo (starting_epoch, last_verified_epoch) and the directory are the
\* inputs of poll_for_new_epochs
InitPoll ==
    /\ storage_kind = "InMemory"
    /\ configured = {"a"}
    /\ phase = "running"
    /\ starts = 1
    /\ \E starting_epoch \in Epochs :
       \E last_verified_epoch \in {None} \cup (starting_epoch..MaxEpoch) :
          /\ namespaces = [n \in Names |->
                IF n = "a" THEN [starting_epoch |-> starting_epoch,
                                 last_verified_epoch |-> last_verified_epoch,
                                 status |-> "Online"]
                ELSE NoInfo]
          /\ reconciled = [n \in Names |->
                IF n = "a" THEN [existing_status |-> "Online", config_status |-> "Online",
                                 status |-> "Online", changed |-> FALSE, op |-> "none",
                                 config_starting_epoch |-> starting_epoch]
                ELSE NoReconcile]
    /\ signatures = [n \in Names |-> [e \in Epochs |-> NoSig]]
    /\ key_state = [current_signing_key |-> Generate(1), expired_keys |-> <<>>]
    /\ keys_mutex = "free"
    /\ keys_file = NoKeyState
    /\ verifying_file = {}
    /\ next_key_id = 2
    /\ lapsed = {}
    /\ \E high \in PollHighs : \E gap \in PollGaps :
          akd = [n \in Names |->
                    IF n = "a" THEN PollDirectory(high, gap) ELSE PollDirectory(None, None)]
    /\ pc = [n \in Names |-> IF n = "a" THEN "ready" ELSE "down"]
    /\ namespace_info = [n \in Names |-> NoInfo]
    /\ blob_names = [n \in Names |-> <<>>]
    /\ idx = [n \in Names |-> 0]
    /\ sleep_duration = [n \in Names |-> "none"]
    /\ shutdown_rx = [n \in Names |-> FALSE]
    /\ tampers = [n \in Names |-> 0]
    /\ last_event = [n \in Names |-> NoEvent]
    /\ verifying_keys = {}
    /\ lookup = NoLookup
    /\ state_file = NoStateFile
    /\ repo_call = NoRepoCall

NextPoll ==
    \E n \in Names : \E name_fails \in PollNameFailures : RunAuditCycle(n, name_fails)

SpecPoll == InitPoll /\ [][NextPoll]_vars

\* a step in which worker n polls
PollStep(n) == pc[n] = "ready" /\ pc'[n] \in {"processing", "sleeping"}

\* the blob names the poll of this step returned
Polled(n) == IF pc'[n] = "processing" THEN blob_names'[n] ELSE <<>>

\* the epoch a poll of namespace n begins with
FirstPolled(n) ==
    IF namespaces[n].last_verified_epoch # None
    THEN namespaces[n].last_verified_epoch + 1
    ELSE namespaces[n].starting_epoch

\* a poll returns at most MAX_EPOCHS_PER_POLL names, which are the names the
\* directory gives for consecutive epochs beginning with FirstPolled
PollIsBoundedRun(n) ==
    /\ Len(Polled(n)) <= MAX_EPOCHS_PER_POLL
    /\ \A i \in 1..Len(Polled(n)) :
          /\ Polled(n)[i].epoch = FirstPolled(n) + i - 1
          /\ has_proof(akd[n], FirstPolled(n) + i - 1)
          /\ Polled(n)[i] = get_proof_name(akd[n], FirstPolled(n) + i - 1)

\* C18 as stated - a poll returns at most 50 blob names, for consecutive epochs
\* from last_verified_epoch + 1 (from starting_epoch when there is none), and the
\* list ends at the first epoch for which the directory has no proof or at 50
\* entries, whichever comes first.
PollEndsAtGapOrLimit ==
    [][\A n \in Names :
         PollStep(n) =>
            /\ PollIsBoundedRun(n)
            /\ \/ Len(Polled(n)) = MAX_EPOCHS_PER_POLL
               \/ ~has_proof(akd[n], FirstPolled(n) + Len(Polled(n)))]_vars

\* C18 amended - as above, but the list also ends at the first epoch whose
\* proof name cannot be retrieved although the directory has a proof for it.
PollEndsAtGapFailureOrLimit ==
    [][\A n \in Names : \A name_fails \in PollNameFailures :
         (PollStep(n) /\ RunAuditCycle(n, name_fails)) =>
            /\ PollIsBoundedRun(n)
            /\ \/ Len(Polled(n)) = MAX_EPOCHS_PER_POLL
               \/ ~has_proof(akd[n], FirstPolled(n) + Len(Polled(n)))
               \/ FirstPolled(n) + Len(Polled(n)) \in name_fails]_vars

\* C18 witness: a poll has returned 50 names although the directory has the
\* proof of the epoch after the last of them
PollEndsAtGapFailureOrLimitWitness ==
    \E n \in Names :
        /\ pc[n] = "processing"
        /\ Len(blob_names[n]) = MAX_EPOCHS_PER_POLL
        /\ blob_names[n][1].epoch = FirstPolled(n)
        /\ has_proof(akd[n], blob_names[n][MAX_EPOCHS_PER_POLL].epoch + 1)

(* ------------- SignatureRepository as a store of its own ---------------- *)
\* the ciphersuites a signature handed to the store can carry: what
\* EpochSignature::sign and a decoder produce
Ciphersuites == {ProtobufEd25519, BincodeEd25519, Unknown(3)}

\* the signatures a caller can hand to set_signature for an epoch
StoreSignatures(epoch) ==
    { [Sign("a", epoch, d, Generate(1), 1) EXCEPT !.ciphersuite = c] :
        d \in Digests, c \in Ciphersuites }

\* a caller sets the signature of an epoch
StoreSet(n, epoch, signature) ==
    /\ n \in configured
    /\ signatures' = [signatures EXCEPT ![n] = set_signature(signatures[n], epoch, signature)]
    /\ UNCHANGED <<readerVars, repoVars, storage_kind, configured, phase, starts, namespaces, keyVars,
                   akd, workerVars, shutdown_rx, tampers, reconciled>>

InitStore == Init /\ configured = {"a"}

NextStore ==
    \E n \in Names : \E epoch \in Epochs : \E signature \in StoreSignatures(epoch) :
        StoreSet(n, epoch, signature)

SpecStore == InitStore /\ [][NextStore]_vars

\* C20 - SignatureRepository law, for the in-memory and the filesystem store:
\* after set_signature(e, s), get_signature(e) is Some(s) and has_signature(e)
\* is true, whatever was stored for e before; setting s once more changes
\* nothing; the entries of all other epochs are as before; and has_signature(e)
\* holds exactly when get_signature(e) is Some.
SetThenGet ==
    [][\A n \in Names : \A e \in Epochs : \A s \in StoreSignatures(e) :
         StoreSet(n, e, s) =>
            /\ get_signature(signatures'[n], e) = s
            /\ has_signature(signatures'[n], e)
            /\ set_signature(signatures'[n], e, s) = signatures'[n]
            /\ \A f \in Epochs :
                  /\ f # e => get_signature(signatures'[n], f) = get_signature(signatures[n], f)
                  /\ has_signature(signatures'[n], f)
                        <=> get_signature(signatures'[n], f) # NoSig]_vars

\* C20 witness: a filesystem store in which the signature of an epoch was
\* overwritten by one with another ciphersuite and digest, next to the signature
\* of another epoch and an epoch without signature
SetThenGetWitness ==
    \E n \in Names : \E e \in Epochs : \E f \in Epochs : \E g \in Epochs :
        /\ storage_kind = "File"
        /\ has_signature(signatures[n], e)
        /\ get_signature(signatures[n], e).ciphersuite = BincodeEd25519
        /\ get_signature(signatures[n], e).digest = 1
        /\ f # e /\ has_signature(signatures[n], f)
        /\ get_signature(signatures[n], f).ciphersuite = Unknown(3)
        /\ ~has_signature(signatures[n], g)

(* ------------- NamespaceRepository as a store of its own ---------------- *)
\* the NamespaceInfo values a caller hands to add_namespace and update_namespace
RepoInfos ==
    [starting_epoch : {0}, last_verified_epoch : {None, 0},
     status : {"Online", "Disabled", "SignatureLost"}]

\* everything but the repository, its state file and the process stays as it is
RepoFrame ==
    UNCHANGED <<readerVars, storage_kind, configured, starts, signatures, keyVars, akd,
                workerVars, shutdown_rx, tampers, reconciled>>

\* FileNamespaceRepository::new / InMemoryNamespaceRepository::new
RepoOpen ==
    /\ phase = "down"
    /\ state_file.kind # "torn"
    /\ phase' = "running"
    /\ namespaces' = NamespaceRepositoryNew(state_file)
    /\ UNCHANGED repoVars
    /\ RepoFrame

\* a caller adds a namespace
RepoAdd(name, info) ==
    /\ phase = "running"
    /\ LET call == add_namespace(namespaces, name, info)
       IN  /\ namespaces' = call.repo
           /\ state_file' = Persisted(state_file, call.repo, call.result = "Ok")
           /\ repo_call' = [op |-> "add", name |-> name, result |-> call.result]
    /\ UNCHANGED phase
    /\ RepoFrame

\* a caller updates a namespace
RepoUpdate(name, info) ==
    /\ phase = "running"
    /\ LET call == update_namespace(namespaces, name, info)
       IN  /\ namespaces' = call.repo
           /\ state_file' = Persisted(state_file, call.repo, call.result = "Ok")
           /\ repo_call' = [op |-> "update", name |-> name, result |-> call.result]
    /\ UNCHANGED phase
    /\ RepoFrame

\* a caller removes a namespace
RepoRemove(name) ==
    /\ phase = "running"
    /\ LET call == remove_namespace(namespaces, name)
       IN  /\ namespaces' = call.repo
           /\ state_file' = Persisted(state_file, call.repo, call.result = "Ok")
           /\ repo_call' = [op |-> "remove", name |-> name, result |-> call.result]
    /\ UNCHANGED phase
    /\ RepoFrame

\* the process is killed while a mutating call of the file-backed repository
\* is inside persist: the map in memory is gone, the state file is whatever
\* std::fs::write had made of it
RepoCrash(op, name, info) ==
    /\ phase = "running"
    /\ storage_kind = "File"
    /\ LET call == IF op = "add" THEN add_namespace(namespaces, name, info)
                   ELSE IF op = "update" THEN update_namespace(namespaces, name, info)
                   ELSE remove_namespace(namespaces, name)
       IN  /\ call.result = "Ok"
           /\ state_file' \in WriteOutcomes(state_file, call.repo)
           /\ repo_call' = [op |-> op, name |-> name, result |-> "killed"]
    /\ phase' = "down"
    /\ namespaces' = [n \in Names |-> NoInfo]
    /\ RepoFrame

InitNamespaces == Init /\ configured = Names

NextNamespaces ==
    \/ RepoOpen
    \/ \E name \in Names : \E info \in RepoInfos : RepoAdd(name, info)
    \/ \E name \in Names : \E info \in RepoInfos : RepoUpdate(name, info)
    \/ \E name \in Names : RepoRemove(name)
    \/ \E op \in {"add", "update", "remove"} : \E name \in Names : \E info \in RepoInfos :
          RepoCrash(op, name, info)

SpecNamespaces == InitNamespaces /\ [][NextNamespaces]_vars

\* C21 as stated - add_namespace fails when the repository already holds a
\* namespace of that name, and the stored NamespaceInfo of that name is then
\* left as it was.
AddRefusesExistingName ==
    [][\A name \in Names : \A info \in RepoInfos :
         (RepoAdd(name, info) /\ namespaces[name] # NoInfo) =>
            /\ repo_call'.result # "Ok"
            /\ namespaces'[name] = namespaces[name]]_vars

\* C22 - update_namespace of a name the repository does not hold fails with
\* NamespaceNotFound and changes nothing (nothing is inserted, the state file is
\* not written); of a name it holds, it replaces that entry and leaves every
\* other entry as it was.  remove_namespace of a name the repository does not
\* hold fails with NamespaceNotFound and changes nothing.
UpdateAndRemoveNeedTheName ==
    [][/\ \A name \in Names : \A info \in RepoInfos :
            RepoUpdate(name, info) =>
               IF namespaces[name] = NoInfo
               THEN /\ repo_call'.result = "NamespaceNotFound"
                    /\ namespaces' = namespaces
                    /\ state_file' = state_file
               ELSE /\ repo_call'.result = "Ok"
                    /\ namespaces'[name] = info
                    /\ \A other \in Names \ {name} : namespaces'[other] = namespaces[other]
       /\ \A name \in Names :
            (RepoRemove(name) /\ namespaces[name] = NoInfo) =>
               /\ repo_call'.result = "NamespaceNotFound"
               /\ namespaces' = namespaces
               /\ state_file' = state_file]_vars

\* C22 witness: an update of a name the repository does not hold has failed
\* while the repository holds another namespace
UpdateAndRemoveNeedTheNameWitness ==
    /\ repo_call.op = "update"
    /\ repo_call.result = "NamespaceNotFound"
    /\ namespaces[repo_call.name] = NoInfo
    /\ \E other \in Names : namespaces[other] # NoInfo

\* C23 as stated - the file-backed repository persists the whole map in every
\* successful mutating call, and a process killed at any point of a mutating
\* call leaves the state file holding a complete document, the one before the
\* call or the new one, never a truncated or partial one.
StateFileIsWholeDocument ==
    storage_kind = "File" =>
        /\ state_file.kind \in {"absent", "complete"}
        /\ (phase = "running" /\ repo_call.result = "Ok") => state_file = persist(namespaces)

(* ---------------------------- graceful shutdown ------------------------ *)
\* One run of an auditor of two namespaces against an honest directory, from
\* its start to the return of AuditorApp::run.  The tokio runtime polls every spawned worker
\* that is able to go on, and run's join_all is polled once the workers are
\* done: the steps of the workers and the return of run are weakly fair.  The
\* operator, the directory and the clock are not.
InitShutdown == Init /\ configured = Names

NextShutdown ==
    \/ \E config \in NamespaceConfigs : starts = 0 /\ AppStart(config)
    \/ \E n \in Names : AkdPublish(n, HonestPrevious(NextUnpublished(n)),
                                   HonestPrevious(NextUnpublished(n)))
    \/ \E n \in Names : RunAuditCycle(n, {})
    \/ \E n \in Names : \E download_ok \in BOOLEAN : ProcessAuditRequest(n, download_ok)
    \/ \E n \in Names : RecordSuccess(n)
    \/ \E n \in Names : SleepCompleted(n)
    \/ \E n \in Names : ShutdownReceived(n)
    \/ Shutdown
    \/ AppExit
    \/ KeyExpires

WorkerFairness(n) ==
    /\ WF_vars(RunAuditCycle(n, {}))
    /\ WF_vars(\E download_ok \in BOOLEAN : ProcessAuditRequest(n, download_ok))
    /\ WF_vars(RecordSuccess(n))
    /\ WF_vars(SleepCompleted(n))
    /\ WF_vars(ShutdownReceived(n))

SpecShutdown ==
    /\ InitShutdown
    /\ [][NextShutdown]_vars
    /\ \A n \in Names : WorkerFairness(n)
    /\ WF_vars(AppExit)

\* a worker is blocked for ever inside a call that does not return (the relock
\* of the keys mutex in the file-backed rotate_signing_key)
InFlightCallNeverReturns == \E n \in Names : pc[n] = "hung"

EpochCompleted(n) ==
    \/ /\ pc'[n] = "recording"
       /\ \/ signatures'[n][last_event'[n].epoch] # NoSig
          \/ last_event'[n].outcome = "skipped_before_start"
    \/ /\ pc'[n] = "stopped"
       /\ ~is_active(namespaces'[n].status)

SleepInterrupted ==
    [][\A n \in Names :
          /\ (pc[n] = "sleeping" /\ pc'[n] # "sleeping") =>
                IF shutdown_rx[n] THEN pc'[n] = "stopped" /\ namespaces' = namespaces
                ELSE pc'[n] = "ready"
          /\ pc[n] = "stopped" => pc'[n] \in {"stopped", "down"}]_vars

\* C26 witness: a worker asleep after a cycle has the shutdown message in its
\* receiver, while the other worker exited on it
SleepInterruptedWitness ==
    \E n \in configured : \E m \in configured \ {n} :
        /\ pc[n] = "sleeping" /\ shutdown_rx[n]
        /\ pc[m] = "stopped" /\ ~shutdown_rx[m] /\ namespaces[m].status = "Online"

(* ------------------------ catching up on a backlog --------------------- *)
\* the epochs of a directory holding more than two full polls
CatchUpEpochs == 0..(2 * MAX_EPOCHS_PER_POLL + MaxEpoch)

\* the highest published epochs tried: an empty and a short directory, and
\* directories around one and around two full polls
CatchUpHighs ==
    {None, MaxEpoch, MAX_EPOCHS_PER_POLL - 2, MAX_EPOCHS_PER_POLL - 1, MAX_EPOCHS_PER_POLL,
     2 * MAX_EPOCHS_PER_POLL - 1}

\* the starting epochs tried
CatchUpStarts == {0, MaxEpoch}

\* an honest directory holding valid, chained proofs of the epochs up to high
CatchUpDirectory(high) ==
    [e \in CatchUpEpochs |-> IF e <= high THEN HonestBlob(e) ELSE NoBlob]

\* the highest epoch namespace n's directory holds a proof of, None if it holds none
HighestPublished(n) ==
    IF \A e \in DOMAIN akd[n] : akd[n][e] = NoBlob THEN None
    ELSE CHOOSE e \in DOMAIN akd[n] :
            akd[n][e] # NoBlob /\ \A f \in DOMAIN akd[n] : akd[n][f] # NoBlob => f <= e

\* A freshly started auditor of the Online namespaces conf, nothing audited
\* yet: namespace a faces a directory with a backlog, any other an empty one.
Backlog(conf) ==
    /\ storage_kind \in {"File", "InMemory"}
    /\ configured = conf
    /\ phase = "running"
    /\ starts = 1
    /\ \E starting_epoch \in CatchUpStarts :
          /\ namespaces = [n \in Names |->
                IF n \notin conf THEN NoInfo
                ELSE [starting_epoch |->
                          IF n = "a" THEN starting_epoch ELSE ConfigStartingEpoch[n],
                      last_verified_epoch |-> None, status |-> "Online"]]
          /\ reconciled = [n \in Names |->
                IF n \notin conf THEN NoReconcile
                ELSE [existing_status |-> "none", config_status |-> "Online",
                      status |-> "Online", changed |-> FALSE, op |-> "add",
                      config_starting_epoch |->
                          IF n = "a" THEN starting_epoch ELSE ConfigStartingEpoch[n]]]
          /\ state_file = IF storage_kind = "File" THEN persist(namespaces) ELSE NoStateFile
    /\ signatures = [n \in Names |->
                        [e \in IF n = "a" THEN CatchUpEpochs ELSE Epochs |-> NoSig]]
    /\ key_state = [current_signing_key |-> Generate(1), expired_keys |-> <<>>]
    /\ keys_mutex = "free"
    /\ keys_file = IF storage_kind = "File" THEN key_state ELSE NoKeyState
    /\ verifying_file = IF storage_kind = "File" THEN ToVerifyingKeys(key_state) ELSE {}
    /\ next_key_id = 2
    /\ lapsed = {}
    /\ \E high \in CatchUpHighs :
          akd = [n \in Names |->
                    IF n = "a" THEN CatchUpDirectory(high) ELSE [e \in Epochs |-> NoBlob]]
    /\ pc = [n \in Names |-> IF n \in conf THEN "ready" ELSE "down"]
    /\ namespace_info = [n \in Names |-> NoInfo]
    /\ blob_names = [n \in Names |-> <<>>]
    /\ idx = [n \in Names |-> 0]
    /\ sleep_duration = [n \in Names |-> "none"]
    /\ shutdown_rx = [n \in Names |-> FALSE]
    /\ tampers = [n \in Names |-> 0]
    /\ last_event = [n \in Names |-> NoEvent]
    /\ verifying_keys = {}
    /\ lookup = NoLookup
    /\ repo_call = NoRepoCall

\* two workers, one with a backlog, up to the shutdown of the auditor
InitBacklog == Backlog(Names)

NextBacklog ==
    \/ \E n \in Names : RunAuditCycle(n, {})
    \/ \E n \in Names : ProcessAuditRequest(n, TRUE)
    \/ \E n \in Names : RecordSuccess(n)
    \/ \E n \in Names : SleepCompleted(n)
    \/ \E n \in Names : ShutdownReceived(n)
    \/ Shutdown
    \/ AppExit

SpecBacklog == InitBacklog /\ [][NextBacklog]_vars

\* one worker with a backlog and nobody requesting a shutdown; the runtime
\* polls the worker whenever it can go on
InitCatchUp == Backlog({"a"})

NextCatchUp ==
    \/ RunAuditCycle("a", {})
    \/ ProcessAuditRequest("a", TRUE)
    \/ RecordSuccess("a")
    \/ SleepCompleted("a")
    \/ KeyExpires

SpecCatchUp ==
    /\ InitCatchUp
    /\ [][NextCatchUp]_vars
    /\ WF_vars(RunAuditCycle("a", {}))
    /\ WF_vars(ProcessAuditRequest("a", TRUE))
    /\ WF_vars(RecordSuccess("a"))
    /\ WF_vars(SleepCompleted("a"))

\* the last epoch audited before worker n's current cycle, from the
\* NamespaceInfo the cycle read at its start
AuditedBeforeCycle(n) ==
    IF namespace_info[n].last_verified_epoch # None
    THEN namespace_info[n].last_verified_epoch
    ELSE namespace_info[n].starting_epoch - 1

\* the number of epochs the cycle that ends in this step has audited
ProcessedInCycle(n) ==
    IF pc[n] = "ready" THEN 0
    ELSE namespaces'[n].last_verified_epoch - AuditedBeforeCycle(n)

\* C27 - the sleep after an audit cycle is the minimal one exactly when the
\* cycle processed MAX_EPOCHS_PER_POLL epochs and the configured one for every
\* other count, 0 included; either sleep ends with the worker's exit when the
\* shutdown message is in its receiver, and only then.
SleepChosenByCount ==
    [][\A n \in Names :
          /\ (pc[n] # "sleeping" /\ pc'[n] = "sleeping") =>
                sleep_duration'[n] = IF ProcessedInCycle(n) = MAX_EPOCHS_PER_POLL
                                     THEN "minimal" ELSE "configured"
          /\ (pc[n] = "sleeping" /\ pc'[n] # "sleeping") =>
                /\ sleep_duration[n] \in {"minimal", "configured"}
                /\ pc'[n] = IF shutdown_rx[n] THEN "stopped" ELSE "ready"]_vars

\* C27 witness: a worker has exited from a minimal sleep on the shutdown
\* message while the other sleeps the configured duration after a cycle that
\* found nothing
SleepChosenByCountWitness ==
    /\ pc["a"] = "stopped" /\ namespaces["a"].status = "Online"
    /\ namespaces["a"].last_verified_epoch =
          namespaces["a"].starting_epoch + MAX_EPOCHS_PER_POLL - 1
    /\ pc["b"] = "sleeping" /\ sleep_duration["b"] = "configured"

\* namespace a is audited up to the last epoch of its directory
CaughtUp ==
    /\ namespaces["a"].last_verified_epoch = HighestPublished("a")
    /\ \A e \in namespaces["a"].starting_epoch..HighestPublished("a") :
          signatures["a"][e] # NoSig

\* the directory of namespace a holds a proof of its starting_epoch
HasBacklog ==
    HighestPublished("a") # None /\ HighestPublished("a") >= namespaces["a"].starting_epoch

\* C28 as stated - an active namespace whose directory holds valid, chained
\* proofs of the epochs starting_epoch..N is, with no shutdown, eventually
\* audited up to N, a signature stored for every epoch of starting_epoch..N.
CatchesUp == HasBacklog => <>CaughtUp

\* the catch-up does happen while the signing key repository hands out keys:
\* in memory, and under file storage as long as no key of it expires
CatchesUpWhileKeysAreServed ==
    (HasBacklog /\ [](storage_kind = "File" => lapsed = {})) => <>CaughtUp

\* a cycle advances last_verified_epoch by at most MAX_EPOCHS_PER_POLL, one
\* epoch and one signature at a time; the first cycle of a cold start on a
\* directory holding 2 * MAX_EPOCHS_PER_POLL proofs ends, before its sleep,
\* with last_verified_epoch = starting_epoch + 49 and 50 signatures stored
CycleAdvanceBounded ==
    [][\A n \in Names :
          /\ namespaces'[n].last_verified_epoch # namespaces[n].last_verified_epoch =>
                /\ namespaces'[n].last_verified_epoch - AuditedBeforeCycle(n)
                      \in 1..MAX_EPOCHS_PER_POLL
                /\ namespaces'[n].last_verified_epoch = blob_names[n][idx[n] + 1].epoch
          /\ (pc[n] = "recording" /\ pc'[n] = "sleeping"
              /\ namespace_info[n].last_verified_epoch = None
              /\ HighestPublished(n) # None
              /\ HighestPublished(n) - namespace_info[n].starting_epoch + 1
                    >= 2 * MAX_EPOCHS_PER_POLL) =>
                /\ namespaces'[n].last_verified_epoch =
                      namespace_info[n].starting_epoch + MAX_EPOCHS_PER_POLL - 1
                /\ Cardinality({e \in DOMAIN signatures[n] : signatures[n][e] # NoSig})
                      = MAX_EPOCHS_PER_POLL
                /\ sleep_duration'[n] = "minimal"]_vars

(* ------------------- the start of a cycle, and a failed poll ----------- *)
\* C29 - a cycle that reads, at its start, a namespace that is absent from the
\* repository or whose status is not Online or Initialization fails and stops
\* the worker: no blob name is polled, nothing is signed, and the namespace
\* repository, its state file, the signature stores and the signing keys are
\* left as they were.  A cycle goes on to processing or to its sleep only for
\* a namespace read as Online or Initialization.
InactiveNeverAudited ==
    [][\A n \in Names :
          (pc[n] = "ready" /\ pc'[n] \notin {"ready", "down"}) =>
             IF namespaces[n] = NoInfo \/ namespaces[n].status \notin ActiveStatuses
             THEN /\ pc'[n] = "stopped"
                  /\ blob_names'[n] = <<>>
                  /\ namespaces' = namespaces
                  /\ state_file' = state_file
                  /\ signatures' = signatures
                  /\ key_state' = key_state /\ keys_file' = keys_file
                  /\ last_event' = last_event
             ELSE pc'[n] \in {"processing", "sleeping"}]_vars

\* C29 witness: started again on a namespace whose status a failure of the run
\* before made SignatureVerificationFailed, the worker has stopped without
\* processing an epoch
InactiveNeverAuditedWitness ==
    \E n \in configured :
        /\ starts = 2
        /\ pc[n] = "stopped"
        /\ namespaces[n].status = "SignatureVerificationFailed"
        /\ last_event[n] = NoEvent

\* C30 - a poll in which a directory request fails (has_proof, which reports
\* the failure as "no proof", or get_proof_name) ends with the blob names
\* gathered before the failure: the names of the consecutive epochs from the
\* first polled one up to the failing epoch, the first epoch without a proof or
\* the limit.  The namespace repository is not changed and the worker does not
\* stop: it processes those names, or sleeps and polls again.
PollErrorsAreTransient ==
    [][\A n \in Names : \A name_fails \in NameFailures \ {{}} :
          (RunAuditCycle(n, name_fails) /\ namespaces[n] # NoInfo
              /\ namespaces[n].status \in ActiveStatuses) =>
             /\ namespaces' = namespaces
             /\ state_file' = state_file
             /\ pc'[n] \in {"processing", "sleeping"}
             /\ pc'[n] = "sleeping" <=> blob_names'[n] = <<>>
             /\ \A i \in 1..Len(blob_names'[n]) :
                   /\ blob_names'[n][i] = get_proof_name(akd[n], FirstPolled(n) + i - 1)
                   /\ FirstPolled(n) + i - 1 \notin name_fails
             /\ \/ Len(blob_names'[n]) = MAX_EPOCHS_PER_POLL
                \/ ~has_proof(akd[n], FirstPolled(n) + Len(blob_names'[n]))
                \/ FirstPolled(n) + Len(blob_names'[n]) \in name_fails]_vars

\* C30 witness: a worker of an Online namespace has gone to sleep although the
\* directory holds the proof of the next epoch (the directory publishes only
\* while the worker is about to poll): the poll failed at that epoch
PollErrorsAreTransientWitness ==
    \E n \in configured :
        /\ pc[n] = "sleeping"
        /\ namespaces[n].status = "Online"
        /\ has_proof(akd[n], FirstPolled(n))

(* ---------------- reconciliation of non-failed namespaces --------------- *)
\* the stored statuses the configuration may overwrite
NonFailedStatuses == {"Online", "Initialization", "Disabled"}

\* C31 - at a start, for every configured namespace whose stored status is not
\* a failure status: a namespace the repository does not hold is added with the
\* configured status and changed = false; a namespace stored as Online,
\* Initialization or Disabled gets the configured status, changed is true
\* exactly when the configured status differs from the stored one, a changed
\* namespace is updated and an unchanged one is left as it was stored.
ReconcileAdoptsConfig ==
    [][(phase = "down" /\ phase' = "running") =>
         /\ \A config_status \in ConfigStatuses :
               /\ resolve_status_transition(config_status, "Absent")
                     = [status |-> config_status, changed |-> FALSE]
               /\ \A existing_status \in NonFailedStatuses :
                     resolve_status_transition(config_status, existing_status)
                       = [status |-> config_status,
                          changed |-> existing_status # config_status]
         /\ \A n \in Names :
               LET existing == NamespaceRepositoryNew(state_file)[n]
                   rec == reconciled'[n]
               IN  (rec # NoReconcile /\ existing.status \notin StickyStatuses) =>
                     /\ rec.status = rec.config_status
                     /\ namespaces'[n].status = rec.config_status
                     /\ IF existing = NoInfo
                        THEN rec.changed = FALSE /\ rec.op = "add"
                        ELSE /\ rec.changed = (rec.config_status # existing.status)
                             /\ rec.op = IF rec.changed THEN "update" ELSE "none"
                             /\ ~rec.changed => namespaces'[n] = existing
                             /\ namespaces'[n].last_verified_epoch
                                   = existing.last_verified_epoch]_vars

\* C31 witness: a restart whose configuration says Disabled has met a namespace
\* stored as Online and updated it
ReconcileAdoptsConfigWitness ==
    \E n \in Names :
        /\ phase = "running"
        /\ starts = 2
        /\ reconciled[n].existing_status = "Online"
        /\ reconciled[n].config_status = "Disabled"
        /\ reconciled[n].changed
        /\ reconciled[n].op = "update"
        /\ namespaces[n].status = "Disabled"

(* ----------------- what a stored signature binds ------------------------ *)
\* C32 - a signature a worker stores was made for what the worker verified: it
\* is filed under the epoch of the blob being processed, its epoch and digest
\* are the end epoch and end hash of that blob, for which
\* verify_consecutive_append_only succeeded from the anchor the worker used,
\* the signed payload is the one rebuilt from the stored fields, and its
\* key_id is that of the current signing key the repository returned.
SignatureBindsVerified ==
    [][\A n \in Names : \A e \in Epochs :
         Persists(n, e) =>
            LET blob_name == blob_names[n][idx[n] + 1]
                audit_blob == akd[n][blob_name.epoch]
                sig == signatures'[n][e]
            IN  /\ pc[n] = "processing"
                /\ e = blob_name.epoch
                /\ sig.epoch = blob_name.epoch
                /\ sig.digest = blob_name.current_hash
                /\ sig.namespace = n
                /\ sig.signed_msg = ToMessage(sig)
                /\ verify_blob(n, blob_name, namespace_info[n], TRUE).outcome = "verified"
                /\ verify_consecutive_append_only(audit_blob, last_event'[n].anchor,
                                                  sig.digest)
                /\ sig.key_id = key_state'.current_signing_key.key_id
                /\ sig.signed_by = key_state'.current_signing_key.secret
                /\ sig.key_id \notin lapsed'
                /\ \A f \in Epochs \ {e} : signatures'[n][f] = signatures[n][f]]_vars

\* C32 witness: a worker has just signed an epoch after its starting epoch,
\* anchored at the stored signature of the epoch before, and the stored
\* signature carries the root hash 1 of that epoch
SignatureBindsVerifiedWitness ==
    \E n \in configured : \E e \in Epochs :
        /\ pc[n] = "recording"
        /\ last_event[n].outcome = "signed"
        /\ last_event[n].epoch = e
        /\ last_event[n].anchor_source = "stored"
        /\ signatures[n][e] # NoSig
        /\ signatures[n][e].epoch = e
        /\ signatures[n][e].digest = 1

(* ---------------------- isolation of the workers ------------------------ *)
\* a step of the task AuditorApp::run spawned for namespace n
WorkerStep(n) ==
    /\ phase = "running" /\ phase' = "running"
    /\ pc'[n] # pc[n] \/ idx'[n] # idx[n]

\* a step of worker a leaves the NamespaceInfo, the signature store and the
\* worker of every other namespace as they were
WorkerStepFrame ==
    [][\A a \in Names : \A b \in Names \ {a} :
         WorkerStep(a) =>
            /\ namespaces'[b] = namespaces[b]
            /\ signatures'[b] = signatures[b]
            /\ pc'[b] = pc[b]
            /\ namespace_info'[b] = namespace_info[b]
            /\ blob_names'[b] = blob_names[b]
            /\ idx'[b] = idx[b]]_vars

\* the call of worker b that does not return was made with the keys mutex free:
\* no other worker's step had left it locked or poisoned
BlockedOnlyByItself(b) ==
    (pc[b] = "processing" /\ pc'[b] \in {"hung", "panicked"}) => keys_mutex = "free"

\* C33 - the workers are isolated: a step of the worker of namespace a
\* (success, failure status written, stall, exit) leaves the NamespaceInfo and
\* the signature store of every other namespace b unchanged, and b's worker
\* goes on with its cycles: nothing worker a did keeps a call of b from
\* returning.
WorkersIsolated ==
    [][\A a \in Names : \A b \in Names \ {a} :
         /\ WorkerStep(a) =>
               /\ namespaces'[b] = namespaces[b]
               /\ signatures'[b] = signatures[b]
               /\ pc'[b] = pc[b]
         /\ BlockedOnlyByItself(b)]_vars

(* -------------------- local persistence failures ------------------------ *)
\* NamespaceAuditor::run: what it returns after audit_cycle has ended the loop;
\* cycle_result is "Ok" (the sleep was interrupted by the shutdown message) or
\* the error run_audit_cycle returned, which audit_cycle logs and turns into
\* "stop"
run(cycle_result) == "Ok"

\* the task AuditorApp::run spawns around run(): where it ends; a worker whose
\* run() returned Err is reported with "Namespace auditor exited with error"
TaskEnd(run_result) == IF run_result = "Ok" THEN "stopped" ELSE "exited_with_error"

\* sign_blob whose set_signature fails (create_dir_all or std::fs::write of the
\* signature file returns an error): process_audit_request returns
\* AuditError::SignatureStorageError, handle_audit_failure writes the status,
\* run_audit_cycle returns Err
StoreSignatureFails(n) ==
    /\ pc[n] = "processing"
    /\ storage_kind = "File"
    /\ keys_mutex = "free"
    /\ ~IsExpired(key_state.current_signing_key)
    /\ LET blob_name == blob_names[n][idx[n] + 1]
           info == namespace_info[n]
           r == process_audit_request(n, blob_name, info, TRUE)
       IN  /\ r.outcome = "verified"
           /\ namespaces' = handle_audit_failure(namespaces, n, info, "SignatureStorageError")
           /\ state_file' = Persisted(state_file,
                                handle_audit_failure(namespaces, n, info,
                                                     "SignatureStorageError"),
                                namespaces[n] # NoInfo)
           /\ last_event' = [last_event EXCEPT ![n] =
                                 Event(blob_name, r, "SignatureStorageError")]
    /\ pc' = [pc EXCEPT ![n] = TaskEnd(run("SignatureStorageError"))]
    /\ CycleLocalsDropped(n)
    /\ UNCHANGED <<readerVars, repo_call, sleep_duration, storage_kind, configured, phase,
                   starts, signatures, keyVars, akd, shutdown_rx, tampers, reconciled>>

\* the update_namespace that records an audited epoch fails in persist (the
\* write of the state file is refused): the map already holds the new
\* NamespaceInfo, the state file is as before, and the ? operator makes
\* run_audit_cycle return the error
UpdateNamespaceFails(n) ==
    /\ pc[n] = "recording"
    /\ storage_kind = "File"
    /\ LET call == update_namespace(namespaces, n,
                       update_last_verified_epoch(namespace_info[n],
                                                  blob_names[n][idx[n] + 1].epoch))
       IN  /\ call.result = "Ok"
           /\ namespaces' = call.repo
    /\ pc' = [pc EXCEPT ![n] = TaskEnd(run("NamespaceRepositoryError"))]
    /\ CycleLocalsDropped(n)
    /\ UNCHANGED <<readerVars, repoVars, sleep_duration, storage_kind, configured, phase,
                   starts, signatures, keyVars, akd, shutdown_rx, tampers, last_event,
                   reconciled>>

InitPersistence == Init /\ storage_kind = "File"

\* one run of the file-backed auditor against an honest directory, in which a
\* download, the write of a signature file or the write of the state file may fail
NextPersistence ==
    \/ \E config \in NamespaceConfigs : starts = 0 /\ AppStart(config)
    \/ \E n \in Names : AkdPublish(n, HonestPrevious(NextUnpublished(n)),
                                   HonestPrevious(NextUnpublished(n)))
    \/ \E n \in Names : RunAuditCycle(n, {})
    \/ \E n \in Names : \E download_ok \in BOOLEAN : ProcessAuditRequest(n, download_ok)
    \/ \E n \in Names : RecordSuccess(n)
    \/ \E n \in Names : SleepCompleted(n)
    \/ \E n \in Names : StoreSignatureFails(n)
    \/ \E n \in Names : UpdateNamespaceFails(n)

SpecPersistence == InitPersistence /\ [][NextPersistence]_vars

\* a worker whose cycle met a local persistence failure stops, and a stopped
\* worker takes no further step while the application runs
PersistFailureStops ==
    [][\A n \in Names :
         /\ (StoreSignatureFails(n) \/ UpdateNamespaceFails(n)) =>
                pc'[n] \in {"stopped", "exited_with_error"}
         /\ (pc[n] \in {"stopped", "exited_with_error"} /\ phase' = "running") =>
                /\ pc'[n] = pc[n]
                /\ namespaces'[n] = namespaces[n]
                /\ signatures'[n] = signatures[n]]_vars

\* C34 - a local persistence failure in a worker (the signature cannot be
\* stored, or the NamespaceRepository cannot be updated) stops the worker and
\* is reported to AuditorApp::run: the worker's run() returns the error, so its
\* task ends as "exited with error".
PersistFailureReported ==
    [][\A n \in Names :
         (StoreSignatureFails(n) \/ UpdateNamespaceFails(n)) =>
            pc'[n] = "exited_with_error"]_vars

(* ------------- concurrent callers of get_current_signing_key ------------ *)
\* worker n's sign_blob is about to call get_current_signing_key on the
\* file-backed repository, whose first block will find the key expired
MustRotate(n) ==
    /\ pc[n] = "processing"
    /\ storage_kind = "File"
    /\ keys_mutex = "free"
    /\ IsExpired(key_state.current_signing_key)
    /\ process_audit_request(n, blob_names[n][idx[n] + 1], namespace_info[n], TRUE).outcome
          = "verified"

\* the first block of FileSigningKeyRepository::get_current_signing_key: the
\* mutex is locked, is_expired() is read and the guard is dropped; the caller
\* goes on to rotate_signing_key with should_rotate = true
CheckSigningKey(n) ==
    /\ MustRotate(n)
    /\ pc' = [pc EXCEPT ![n] = "rotating"]
    /\ UNCHANGED <<readerVars, repoVars, storage_kind, configured, phase, starts, namespaces,
                   signatures, keyVars, akd, namespace_info, blob_names, idx, sleep_duration,
                   last_event, shutdown_rx, tampers, reconciled>>

\* FileSigningKeyRepository::rotate_signing_key called with should_rotate =
\* true: it locks the mutex (blocking or panicking if another caller's rotation
\* holds or poisoned it), replaces the current key whatever it is by now,
\* expires and retires the replaced one, and calls persist() under the guard
RotateSigningKey(n) ==
    /\ pc[n] = "rotating"
    /\ IF keys_mutex # "free"
       THEN /\ pc' = [pc EXCEPT ![n] = IF keys_mutex = "deadlocked" THEN "hung"
                                       ELSE "panicked"]
            /\ UNCHANGED keyVars
       ELSE /\ key_state' = Rotated(key_state, next_key_id)
            /\ next_key_id' = next_key_id + 1
            /\ lapsed' = lapsed \cup {key_state.current_signing_key.key_id}
            /\ \E relock \in RelockOutcomes :
                  /\ keys_mutex' = relock
                  /\ pc' = [pc EXCEPT ![n] = IF relock = "deadlocked" THEN "hung"
                                             ELSE "panicked"]
            /\ UNCHANGED <<keys_file, verifying_file>>
    /\ last_event' = [last_event EXCEPT ![n] =
          Event(blob_names[n][idx[n] + 1],
                process_audit_request(n, blob_names[n][idx[n] + 1], namespace_info[n], TRUE),
                "no_key")]
    /\ CycleLocalsDropped(n)
    /\ UNCHANGED <<readerVars, repoVars, storage_kind, configured, phase, starts, namespaces,
                   signatures, akd, sleep_duration, shutdown_rx, tampers, reconciled>>

InitRotation == Init /\ storage_kind = "File" /\ configured = Names

\* one run of the file-backed auditor with two workers that share the
\* signing-key repository; the check and the rotation inside
\* get_current_signing_key are separate steps under separate locks
NextRotation ==
    \/ \E config \in NamespaceConfigs : starts = 0 /\ AppStart(config)
    \/ \E n \in Names : AkdPublish(n, HonestPrevious(NextUnpublished(n)),
                                   HonestPrevious(NextUnpublished(n)))
    \/ \E n \in Names : RunAuditCycle(n, {})
    \/ \E n \in Names : ~MustRotate(n) /\ ProcessAuditRequest(n, TRUE)
    \/ \E n \in Names : CheckSigningKey(n)
    \/ \E n \in Names : RotateSigningKey(n)
    \/ \E n \in Names : RecordSuccess(n)
    \/ \E n \in Names : SleepCompleted(n)
    \/ KeyExpires

SpecRotation == InitRotation /\ [][NextRotation]_vars

\* however the callers interleave, a key is retired only after it has expired,
\* and at most one key is retired per expiry
RetiresOnlyExpiredKeys ==
    /\ \A i \in 1..Len(key_state.expired_keys) : key_state.expired_keys[i].key_id \in lapsed
    /\ Len(key_state.expired_keys) <= Cardinality(lapsed)
    /\ key_state # NoKeyState =>
          \A i \in 1..Len(key_state.expired_keys) :
              key_state.expired_keys[i].key_id # key_state.current_signing_key.key_id

\* two callers have both read should_rotate = true for the same expired key
BothMustRotate == \A n \in Names : pc[n] = "rotating"

\* C35 - callers of get_current_signing_key on the file-backed repository that
\* found the current key expired: one rotation happens (the expired key, and no
\* fresh key, joins the retired keys) and every such caller receives the new
\* current key, with which its signature is made.
RotationIsAtomic ==
    [][\A n \in Names :
         RotateSigningKey(n) =>
            /\ \A i \in 1..Len(key_state'.expired_keys) :
                   key_state'.expired_keys[i].key_id \in lapsed
            /\ key_state'.current_signing_key.key_id \notin lapsed'
            /\ pc'[n] \notin {"hung", "panicked"}]_vars

(* --------------- last_verified_epoch during a worker run ---------------- *)
\* C36 - while the application runs, the last_verified_epoch the
\* NamespaceRepository holds for a namespace never decreases: a successful
\* epoch sets it to that epoch, and the write of a failure status leaves it at
\* the last successfully processed epoch, also when epochs of the same cycle
\* succeeded before the failure.
LastVerifiedNeverDecreases ==
    [][\A n \in Names :
         (phase = "running" /\ phase' = "running" /\ namespaces[n] # NoInfo) =>
            /\ namespaces'[n] # NoInfo
            /\ namespaces[n].last_verified_epoch # None =>
                  /\ namespaces'[n].last_verified_epoch # None
                  /\ namespaces'[n].last_verified_epoch >= namespaces[n].last_verified_epoch
            /\ (ProcessStep(n) /\ pc'[n] = "stopped") =>
                  namespaces'[n].last_verified_epoch = namespaces[n].last_verified_epoch]_vars

(* ------------------ rotation of the file-backed keys --------------------- *)
\* a step in which rotate_signing_key replaced the current key
RotationStep ==
    /\ phase = "running" /\ phase' = "running"
    /\ key_state'.current_signing_key # key_state.current_signing_key

\* C37 - on the file-backed signing-key repository every force_key_rotation
\* call, and every get_current_signing_key call made while the current key is
\* expired, returns: the keys mutex is free again, the caller is neither
\* blocked nor panicked, and keys.json and keys_verifying.json hold the rotated
\* keys.
RotationTerminates ==
    [][(RotationStep /\ storage_kind = "File") =>
          /\ keys_mutex' = "free"
          /\ \A n \in Names : pc'[n] \notin {"hung", "panicked"}
          /\ keys_file' = key_state'
          /\ verifying_file' = ToVerifyingKeys(key_state')]_vars
\* a step in which rotate_signing_key ran on the file-backed repository and its
\* persist() call did not write the files
RotationNotPersisted ==
    /\ storage_kind = "File"
    /\ keys_mutex = "free"
    /\ \/ ForceKeyRotation
       \/ \E n \in Names : ProcessStep(n) /\ last_event'[n].outcome = "no_key"
    /\ keys_file' = keys_file
    /\ verifying_file' = verifying_file

\* C38 - a rotation of the file-backed signing-key repository whose persist
\* fails reports the error to its caller and leaves the in-memory state as it
\* was: the same current key and the same retired keys, so that the
\* repository can be asked again and never hands out a key that is not in
\* keys.json.
FailedRotationLeavesState ==
    [][RotationNotPersisted =>
          /\ key_state' = key_state
          /\ keys_mutex' = "free"
          /\ \A n \in Names : pc'[n] \notin {"hung", "panicked"}
          /\ keys_file' = key_state']_vars

(* ------------- what SignatureVerificationFailed stands for --------------- *)
\* C39 - the status SignatureVerificationFailed is written only for an epoch
\* whose verification failed (the append-only proof is rejected, or a stored
\* signature is invalid or names an unknown key): an epoch that ended with
\* another error - the proof could not be downloaded, the signing key could
\* not be obtained, the signature could not be stored - does not set it.
FailedStatusMeansVerificationFailed ==
    [][\A n \in Names :
         (/\ phase = "running" /\ phase' = "running"
          /\ namespaces[n].status # "SignatureVerificationFailed"
          /\ namespaces'[n].status = "SignatureVerificationFailed") =>
            last_event'[n].outcome \in VerificationFailures]_vars

(* ------------------- the predecessor epoch in verify_blob ---------------- *)
\* C40 - blob_name.epoch - 1 in verify_blob does not underflow: an epoch whose
\* check is anchored at the stored signature of the epoch before is at least 1
\* and lies after the starting epoch; an epoch before the starting epoch is
\* skipped and the starting epoch itself (epoch 0 included) is anchored at the
\* blob's own previous hash.
PreviousEpochNeverUnderflows ==
    [][\A n \in Names :
         ProcessStep(n) =>
            LET blob_name == blob_names[n][idx[n] + 1]
                info == namespace_info[n]
            IN  /\ last_event'[n].epoch = blob_name.epoch
                /\ last_event'[n].anchor_source = "stored" =>
                      /\ blob_name.epoch >= 1
                      /\ EpochPrevious(blob_name.epoch) # Underflowed
                      /\ EpochPrevious(blob_name.epoch) >= info.starting_epoch
                /\ blob_name.epoch < info.starting_epoch =>
                      last_event'[n].outcome = "skipped_before_start"
                /\ (blob_name.epoch = info.starting_epoch
                        /\ last_event'[n].anchor_source # "none") =>
                      last_event'[n].anchor_source = "blob"]_vars

\* C40 witness: a namespace whose starting epoch is 0 has had epoch 0 signed
\* from the blob's own previous hash and epoch 1 checked against the stored
\* signature of epoch 0
PreviousEpochNeverUnderflowsWitness ==
    \E n \in configured :
        /\ namespaces[n].starting_epoch = 0
        /\ signatures[n][0] # NoSig
        /\ last_event[n].epoch = 1
        /\ last_event[n].anchor_source = "stored"
        /\ last_event[n].outcome = "signed"

====
